---- MODULE Spec2Model ----
(***************************************************************************)
(* SPSCQueue<T, PowerOfTwoCapacity> of Lock_Free_Ring_Buffer/spsc_queue.cpp *)
(* and the producer/consumer benchmark of its main().                       *)
(*                                                                         *)
(* head_ and tail_ are std::atomic<size_t>.  Each is modelled by its        *)
(* modification order (head_mo, tail_mo: the sequence of values stored),    *)
(* the position of that order the other thread can currently observe        *)
(* (c_head_vis, p_tail_vis) and the position it last synchronised with by   *)
(* an acquire load (c_head_acq, p_tail_acq).  A store becomes visible to    *)
(* the other thread at some later step (Visible_head, Visible_tail).  A     *)
(* slot access by one thread is ordered after the other thread's last       *)
(* access of the slot only if the release store that followed that access   *)
(* has been acquired.                                                       *)
(***************************************************************************)
EXTENDS Integers, Naturals, Sequences, FiniteSets, TLC

\* ------------------------------------------------------------- bounds
CapPow == 2        \* log2 of the template argument PowerOfTwoCapacity
MaxPush == 6       \* successful pushes a client run may make
MaxItems == 5      \* the benchmark's item count N ranges over 0..MaxItems
WordBits == 6      \* width of value_t and of unsigned long long, scaled down from 64
MaxClear == 1      \* calls of clear() a client makes on a queue it keeps using
SizeBits == 11     \* width of std::size_t, scaled down from 64
MaxCapArg == 1030  \* template arguments / command-line capacities 0..MaxCapArg
PoolN == 3         \* the template argument N of ObjectPool<T, N>
MaxPoolCalls == 8  \* calls a client run makes on the pool
MaxMisuse == 2     \* successful pushes, and pops, of an out-of-contract run
MaxSumN == 14      \* item counts 0..MaxSumN of the checksum runs
MaxQueryPush == 4  \* pushes in a run with empty() / full() calls

\* ------------------------------------------------------------- constants
RECURSIVE Pow2(_)
Pow2(n) == IF n = 0 THEN 1 ELSE 2 * Pow2(n - 1)

CAP == Pow2(CapPow)
MASK == CAP - 1

NoVal == -2        \* content of an output argument no pop has written
Garbage == -1      \* what a read of a slot without a visible element yields

\* a & b on naturals, bit by bit
RECURSIVE BitAnd(_, _)
BitAnd(a, b) ==
    IF a = 0 \/ b = 0 THEN 0
    ELSE (IF a % 2 = 1 /\ b % 2 = 1 THEN 1 ELSE 0) + 2 * BitAnd(a \div 2, b \div 2)

Last(s) == s[Len(s)]

RECURSIVE SumOver(_, _)
SumOver(f, S) ==
    IF S = {} THEN 0
    ELSE LET i == CHOOSE x \in S : TRUE IN f[i] + SumOver(f, S \ {i})

VARIABLES
    threads,      \* 1: one thread calls both roles; 2: a producer and a consumer thread
    alive,        \* the queue object exists (constructed, destructor not yet run)
    head_mo,      \* modification order of head_ (head_mo[1] is the constructor's 0)
    tail_mo,      \* modification order of tail_
    buf_,         \* slot -> [state, val, ctors, dtors, dseq, pstamp, cstamp]; dseq
                  \* numbers the slot's last destruction among all destructions
    p_pc,         \* producer: position inside try_push / try_emplace, or "idle"
    p_op,         \* producer: the variant called
    p_val,        \* producer: the value argument
    p_head,       \* producer: local head
    p_next,       \* producer: local next
    p_ret,        \* producer: what the last call returned ("none" before any,
                  \* "threw" if it left by an exception)
    p_tail_vis,   \* position of tail_mo the producer's loads observe
    p_tail_acq,   \* position of tail_mo the producer has acquired
    c_pc,         \* consumer: position inside try_pop, or "idle"
    c_tail,       \* consumer: local tail
    c_out,        \* consumer: the output argument
    c_ret,        \* consumer: what the last call returned ("none" before any)
    c_head_vis,   \* position of head_mo the consumer's loads observe
    c_head_acq,   \* position of head_mo the consumer has acquired
    pushed,       \* values of the pushes that returned true, in order
    popped,       \* values delivered by the pops that returned true, in order
    last_done,    \* the latest call that returned true: "push", "pop" or "none"
    T_kind,       \* the element type T: "copyable" or "move_only"
    main_pc,      \* main(): position in RUN_WITH_CAP ("none": no benchmark runs)
    go,           \* std::atomic<bool> go
    N,            \* the item count
    prod_pc,      \* thread prod: position in its lambda
    cons_pc,      \* thread cons: position in its lambda
    p_i,          \* prod's loop counter i
    c_i,          \* cons's loop counter i
    sum,          \* value_t sum
    produced,     \* std::atomic<size_t> produced
    consumed,     \* std::atomic<size_t> consumed
    checksum_ok,  \* sum == expected, once main has compared them
    c2_pc,        \* a second thread calling try_pop: position, or "idle"
    c2_tail,      \* second consumer: local tail
    c2_out,       \* second consumer: the output argument
    c2_ret,       \* second consumer: what its last call returned
    p2_pc,        \* a second thread calling try_push: position, or "idle"
    p2_val,       \* second producer: the value argument
    p2_head,      \* second producer: local head
    p2_next,      \* second producer: local next
    p2_ret,       \* second producer: what its last call returned
    cap_arg,      \* a template argument PowerOfTwoCapacity / main's CAP
    cap_state,    \* SPSCQueue<T, cap_arg>(): "none", "accepted" or "rejected"
    exit_code,    \* what main returns for CAP = cap_arg (-1: it has not returned)
    _buf,         \* ObjectPool: slot -> [state, v, ctors, dtors, dseq]; ctors and
                  \* dtors count the constructor and destructor calls made on
                  \* the slot, dseq numbers its last destructor call among all
    _next_free,   \* ObjectPool: slot -> index of the next free slot, or _kEmpty
    _head,        \* ObjectPool: index of the first free slot
    _free_count,  \* ObjectPool: number of free slots
    Probe_live,   \* Probe::live
    Probe_ctors,  \* Probe::ctors
    Probe_dtors,  \* Probe::dtors
    ps,           \* the pointers the pool's client holds
    pool_op,      \* the pool's last call: [op, arg, ret]
    pool_n,       \* number of calls made on the pool
    q_who,        \* the role thread that calls empty() / full(): "producer",
                  \* "consumer", or "none" before the call
    q_op,         \* the query it calls: "empty" or "full"
    q_pc,         \* its position in the query: before the "first" load, before
                  \* the "second", or "idle"
    q_first,      \* the value its first load returned
    q_lo,         \* length of the other thread's modification order at the first load
    q_pos,        \* position its load of the other thread's index returned
    q_ret,        \* what the query returned
    q_own,        \* number of the caller's own pushes (pops) when the query returned
    q_conc,       \* the other thread stored its index between the query's loads
    o_pc,         \* a third thread calling empty(): position, or "idle"
    o_first,      \* observer: the value its load of tail_ returned
    o_pos,        \* observer: the position of tail_mo that load returned
    o_pushed,     \* observer: number of pushes completed at its load of tail_
    o_ret,        \* observer: what empty() returned
    o_nonempty    \* observer: the pushes completed at its first load outnumber
                  \* the pops completed at its second, so that the queue held
                  \* an element at every instant of the call

qvars == <<alive, head_mo, tail_mo, buf_>>
pvars == <<p_pc, p_op, p_val, p_head, p_next, p_ret, p_tail_vis, p_tail_acq>>
cvars == <<c_pc, c_tail, c_out, c_ret, c_head_vis, c_head_acq>>
gvars == <<threads, pushed, popped, last_done, T_kind>>
hvars == <<main_pc, go, N, prod_pc, cons_pc, p_i, c_i, sum, produced, consumed,
           checksum_ok>>
xvars == <<c2_pc, c2_tail, c2_out, c2_ret, p2_pc, p2_val, p2_head, p2_next, p2_ret>>
kvars == <<cap_arg, cap_state, exit_code>>
plvars == <<_buf, _next_free, _head, _free_count, Probe_live, Probe_ctors,
            Probe_dtors, ps, pool_op, pool_n>>
qyvars == <<q_who, q_op, q_pc, q_first, q_lo, q_pos, q_ret, q_own, q_conc>>
oyvars == <<o_pc, o_first, o_pos, o_pushed, o_ret, o_nonempty>>
yvars == <<qyvars, oyvars>>
ovars == <<xvars, kvars, plvars, yvars>>
vars == <<qvars, pvars, cvars, gvars, hvars, ovars>>

\* current values of the two atomics (the last store of each)
head_ == Last(head_mo)
tail_ == Last(tail_mo)

Slots == 0..(CAP - 1)
RawSlot == [state |-> "raw", val |-> NoVal, ctors |-> 0, dtors |-> 0,
            dseq |-> 0, pstamp |-> 0, cstamp |-> 0]

\* SPSCQueue(): head_(0), tail_(0), storage uninitialised
NewQueue ==
    /\ alive = TRUE
    /\ head_mo = <<0>>
    /\ tail_mo = <<0>>
    /\ buf_ = [i \in Slots |-> RawSlot]
    /\ p_pc = "idle" /\ p_op = "none" /\ p_val = NoVal
    /\ p_head = 0 /\ p_next = 0 /\ p_ret = "none"
    /\ p_tail_vis = 1 /\ p_tail_acq = 1
    /\ c_pc = "idle" /\ c_tail = 0 /\ c_out = NoVal /\ c_ret = "none"
    /\ c_head_vis = 1 /\ c_head_acq = 1
    /\ pushed = <<>> /\ popped = <<>> /\ last_done = "none"

\* no benchmark: the clients below call the queue directly
NoHarness ==
    /\ main_pc = "none" /\ go = FALSE /\ N = 0
    /\ prod_pc = "none" /\ cons_pc = "none"
    /\ p_i = 0 /\ c_i = 0 /\ sum = 0 /\ produced = 0 /\ consumed = 0
    /\ checksum_ok = "none"

\* ------------------------------------------------------------- memory order
\* the position of the other thread's index that a load returns: on one thread
\* every store is sequenced before the load, so the load returns the last one
LoadPos(vis, mo) == IF threads = 1 THEN Len(mo) ELSE vis

\* faulty variant: the load is memory_order_relaxed and synchronises with nothing
Acquire_relaxed(acq, pos) == acq

\* memory_order_acquire: the load synchronises with the store it reads from
Acquire(acq, pos) == IF pos > acq THEN pos ELSE acq

\* the consumer's accesses of slot i are ordered before the producer's next one
VacatedFor(i) ==
    threads = 1 \/ buf_[i].cstamp < p_tail_acq

\* the producer's construction in slot i is ordered before the consumer's access
PublishedFor(i) ==
    threads = 1 \/ buf_[i].pstamp < c_head_acq

\* ------------------------------------------------------------- producer
\* The queue never inspects a T, so a client run pushes pairwise distinct
\* values: the n-th successful push carries n, and a retry after a failed push
\* carries the same value again.
NextValue == Len(pushed) + 1

\* try_push(const T&), try_push(T&&), try_emplace(Args&&...): entry
\* T(value) with value a const T & needs T's copy constructor; out = *p with
\* *p an lvalue needs T's copy assignment.  A call that needs an operation T
\* lacks is ill-formed: no program contains it.
CopyConstructible == T_kind = "copyable"
CopyAssignable == T_kind = "copyable"

Call_push(op) ==
    /\ main_pc = "none"
    /\ alive /\ p_pc = "idle"
    /\ op = "push_copy" => CopyConstructible
    /\ threads = 1 => c_pc = "idle"
    /\ Len(pushed) < MaxPush
    /\ p_pc' = "load_head" /\ p_op' = op /\ p_val' = NextValue
    /\ UNCHANGED <<p_head, p_next, p_ret, p_tail_vis, p_tail_acq>>
    /\ UNCHANGED <<qvars, cvars, gvars>>
    /\ UNCHANGED hvars
    /\ UNCHANGED ovars

try_push_copy == Call_push("push_copy")
try_push_move == Call_push("push_move")
try_emplace == Call_push("emplace")

\* faulty variant: the producer takes the slot the last pop vacated
P_load_head_vacated ==
    /\ p_pc = "load_head"
    /\ p_head' = IF Len(popped) > 0 THEN BitAnd(tail_ + MASK, MASK) ELSE head_
    /\ p_next' = BitAnd(head_ + 1, MASK)
    /\ p_pc' = "load_tail"
    /\ UNCHANGED <<p_op, p_val, p_ret, p_tail_vis, p_tail_acq>>
    /\ UNCHANGED <<qvars, cvars, gvars>>
    /\ UNCHANGED hvars
    /\ UNCHANGED ovars

\* head = head_.load(relaxed); next = (head + 1) & MASK
P_load_head ==
    /\ p_pc = "load_head"
    /\ p_head' = head_
    /\ p_next' = BitAnd(head_ + 1, MASK)
    /\ p_pc' = "load_tail"
    /\ UNCHANGED <<p_op, p_val, p_ret, p_tail_vis, p_tail_acq>>
    /\ UNCHANGED <<qvars, cvars, gvars>>
    /\ UNCHANGED hvars
    /\ UNCHANGED ovars

\* faulty variant: the full test is missing
IsFull_never(next, tail) == FALSE

\* faulty variant: the full test compares head itself with tail
IsFull_on_head(next, tail) == BitAnd(next + MASK, MASK) = tail

\* the full test
IsFull(next, tail) == next = tail

\* faulty variant: the element is constructed before the full test
P_load_tail_constructs_first ==
    /\ p_pc = "load_tail"
    /\ LET pos == LoadPos(p_tail_vis, tail_mo) IN
        /\ p_tail_acq' = Acquire(p_tail_acq, pos)
        /\ IF IsFull(p_next, tail_mo[pos])
           THEN /\ p_pc' = "idle" /\ p_ret' = "false"
                /\ p_op' = "none" /\ p_val' = NoVal
                /\ buf_' = [buf_ EXCEPT ![p_head].val = p_val]
           ELSE /\ p_pc' = "construct"
                /\ UNCHANGED <<p_ret, p_op, p_val, buf_>>
    /\ UNCHANGED <<p_head, p_next, p_tail_vis>>
    /\ UNCHANGED <<alive, head_mo, tail_mo, cvars, gvars>>
    /\ UNCHANGED hvars
    /\ UNCHANGED ovars

\* faulty variant: the call waits for room instead of returning false
P_load_tail_blocks ==
    /\ p_pc = "load_tail"
    /\ LET pos == LoadPos(p_tail_vis, tail_mo) IN
        /\ ~IsFull(p_next, tail_mo[pos])
        /\ p_tail_acq' = Acquire(p_tail_acq, pos)
    /\ p_pc' = "construct"
    /\ UNCHANGED <<p_ret, p_op, p_val, p_head, p_next, p_tail_vis>>
    /\ UNCHANGED <<qvars, cvars, gvars>>
    /\ UNCHANGED hvars
    /\ UNCHANGED ovars

\* if (next == tail_.load(acquire)) return false;
P_load_tail ==
    /\ p_pc = "load_tail"
    /\ LET pos == LoadPos(p_tail_vis, tail_mo) IN
        /\ p_tail_acq' = Acquire(p_tail_acq, pos)
        /\ IF IsFull(p_next, tail_mo[pos])
           THEN /\ p_pc' = "idle" /\ p_ret' = "false"
                /\ p_op' = "none" /\ p_val' = NoVal
           ELSE /\ p_pc' = "construct"
                /\ UNCHANGED <<p_ret, p_op, p_val>>
    /\ UNCHANGED <<p_head, p_next, p_tail_vis>>
    /\ UNCHANGED <<qvars, cvars, gvars>>
    /\ UNCHANGED hvars
    /\ UNCHANGED ovars

\* ::new (elem_addr(head)) T(...): the constructor starts running in the slot
P_construct_begin ==
    /\ p_pc = "construct"
    /\ buf_' = [buf_ EXCEPT ![p_head].state = "partial",
                            ![p_head].pstamp = Len(head_mo)]
    /\ p_pc' = "constructing"
    /\ UNCHANGED <<alive, head_mo, tail_mo>>
    /\ UNCHANGED <<p_op, p_val, p_head, p_next, p_ret, p_tail_vis, p_tail_acq>>
    /\ UNCHANGED <<cvars, gvars>>
    /\ UNCHANGED hvars
    /\ UNCHANGED ovars

\* the element a variant constructs from its argument
Construct(op, v) ==
    CASE op = "push_copy" -> v      \* T(value)
      [] op = "push_move" -> v      \* T(std::move(value))
      [] op = "emplace" -> v        \* T(std::forward<Args>(args)...)

\* the constructor completes: the slot holds a live T
P_construct_end ==
    /\ p_pc = "constructing"
    /\ buf_' = [buf_ EXCEPT ![p_head].state = "live",
                            ![p_head].val = Construct(p_op, p_val),
                            ![p_head].ctors = @ + 1]
    /\ p_pc' = "store_head"
    /\ UNCHANGED <<alive, head_mo, tail_mo>>
    /\ UNCHANGED <<p_op, p_val, p_head, p_next, p_ret, p_tail_vis, p_tail_acq>>
    /\ UNCHANGED <<cvars, gvars>>
    /\ UNCHANGED hvars
    /\ UNCHANGED ovars

\* what the storage of slot i holds once a constructor has thrown in it: no
\* object (the storage is as it was before the placement-new)
Abandoned(buf, i) ==
    [buf EXCEPT ![i].state = IF buf[i].ctors = 0 THEN "raw" ELSE "dead"]

\* faulty variant: head is published before the element is constructed, so a
\* throwing constructor leaves it advanced
P_construct_throw_published ==
    /\ p_pc = "constructing"
    /\ buf_' = Abandoned(buf_, p_head)
    /\ head_mo' = Append(head_mo, p_next)
    /\ p_pc' = "idle" /\ p_ret' = "threw"
    /\ p_op' = "none" /\ p_val' = NoVal
    /\ UNCHANGED <<alive, tail_mo>>
    /\ UNCHANGED <<p_head, p_next, p_tail_vis, p_tail_acq>>
    /\ UNCHANGED <<cvars, gvars>>
    /\ UNCHANGED hvars
    /\ UNCHANGED ovars

\* the constructor of T throws: the exception leaves try_push / try_emplace, the
\* store of head is not reached
P_construct_throw ==
    /\ p_pc = "constructing"
    /\ buf_' = Abandoned(buf_, p_head)
    /\ p_pc' = "idle" /\ p_ret' = "threw"
    /\ p_op' = "none" /\ p_val' = NoVal
    /\ UNCHANGED <<alive, head_mo, tail_mo>>
    /\ UNCHANGED <<p_head, p_next, p_tail_vis, p_tail_acq>>
    /\ UNCHANGED <<cvars, gvars>>
    /\ UNCHANGED hvars
    /\ UNCHANGED ovars

\* faulty variant: head_.store(head, release) publishes the old index
P_store_head_old ==
    /\ p_pc = "store_head"
    /\ head_mo' = Append(head_mo, p_head)
    /\ p_pc' = "idle" /\ p_ret' = "true"
    /\ pushed' = Append(pushed, p_val)
    /\ p_op' = "none" /\ p_val' = NoVal
    /\ UNCHANGED <<alive, tail_mo, buf_>>
    /\ UNCHANGED <<p_head, p_next, p_tail_vis, p_tail_acq>>
    /\ last_done' = "push"
    /\ UNCHANGED <<cvars, threads, popped, T_kind>>
    /\ UNCHANGED hvars
    /\ UNCHANGED ovars

\* head_.store(next, release); return true;
P_store_head ==
    /\ p_pc = "store_head"
    /\ head_mo' = Append(head_mo, p_next)
    /\ p_pc' = "idle" /\ p_ret' = "true"
    /\ pushed' = Append(pushed, p_val)
    /\ p_op' = "none" /\ p_val' = NoVal
    /\ UNCHANGED <<alive, tail_mo, buf_>>
    /\ UNCHANGED <<p_head, p_next, p_tail_vis, p_tail_acq>>
    /\ last_done' = "push"
    /\ UNCHANGED <<cvars, threads, popped, T_kind>>
    /\ UNCHANGED hvars
    /\ UNCHANGED ovars

\* a store of head_ becomes visible to the consumer thread
Visible_head ==
    /\ threads = 2
    /\ c_head_vis < Len(head_mo)
    /\ c_head_vis' = c_head_vis + 1
    /\ UNCHANGED <<c_pc, c_tail, c_out, c_ret, c_head_acq>>
    /\ UNCHANGED <<qvars, pvars, gvars>>
    /\ UNCHANGED hvars
    /\ UNCHANGED ovars

\* ------------------------------------------------------------- consumer
\* try_pop(T& out): entry
try_pop ==
    /\ main_pc = "none"
    /\ alive /\ c_pc = "idle"
    /\ CopyAssignable
    /\ threads = 1 => p_pc = "idle"
    /\ c_pc' = "load_tail"
    /\ UNCHANGED <<c_tail, c_out, c_ret, c_head_vis, c_head_acq>>
    /\ UNCHANGED <<qvars, pvars, gvars>>
    /\ UNCHANGED hvars
    /\ UNCHANGED ovars

\* tail = tail_.load(relaxed)
C_load_tail ==
    /\ c_pc = "load_tail"
    /\ c_tail' = tail_
    /\ c_pc' = "load_head"
    /\ UNCHANGED <<c_out, c_ret, c_head_vis, c_head_acq>>
    /\ UNCHANGED <<qvars, pvars, gvars>>
    /\ UNCHANGED hvars
    /\ UNCHANGED ovars

\* faulty variant: the empty test is missing
IsEmpty_never(tail, head) == FALSE

\* faulty variant: the empty test also fires when one element is left
IsEmpty_one_left(tail, head) == tail = head \/ BitAnd(tail + 1, MASK) = head

\* the empty test
IsEmpty(tail, head) == tail = head

\* faulty variant: out = *p is done before the empty test
C_load_head_copies_first ==
    /\ c_pc = "load_head"
    /\ LET pos == LoadPos(c_head_vis, head_mo) IN
        /\ c_head_acq' = Acquire(c_head_acq, pos)
        /\ IF IsEmpty(c_tail, head_mo[pos])
           THEN c_pc' = "idle" /\ c_ret' = "false"
           ELSE c_pc' = "copy_out" /\ UNCHANGED c_ret
    /\ c_out' = buf_[c_tail].val
    /\ UNCHANGED <<c_tail, c_head_vis>>
    /\ UNCHANGED <<qvars, pvars, gvars>>
    /\ UNCHANGED hvars
    /\ UNCHANGED ovars

\* if (tail == head_.load(acquire)) return false;
C_load_head ==
    /\ c_pc = "load_head"
    /\ LET pos == LoadPos(c_head_vis, head_mo) IN
        /\ c_head_acq' = Acquire(c_head_acq, pos)
        /\ IF IsEmpty(c_tail, head_mo[pos])
           THEN c_pc' = "idle" /\ c_ret' = "false"
           ELSE c_pc' = "copy_out" /\ UNCHANGED c_ret
    /\ UNCHANGED <<c_tail, c_out, c_head_vis>>
    /\ UNCHANGED <<qvars, pvars, gvars>>
    /\ UNCHANGED hvars
    /\ UNCHANGED ovars

\* faulty variant: elem_ptr(tail + 1) is read instead of elem_ptr(tail)
ReadSlot_next(i) == {buf_[BitAnd(i + 1, MASK)].val}

\* what *p can yield: the element, or anything if no element is visible there
ReadSlot(i) ==
    IF buf_[i].state = "live" /\ PublishedFor(i)
    THEN {buf_[i].val}
    ELSE {buf_[i].val, Garbage}

\* T *p = elem_ptr(tail); out = *p;
C_copy_out ==
    /\ c_pc = "copy_out"
    /\ c_out' \in ReadSlot(c_tail)
    /\ buf_' = [buf_ EXCEPT ![c_tail].cstamp = Len(tail_mo)]
    /\ c_pc' = "destroy"
    /\ UNCHANGED <<alive, head_mo, tail_mo>>
    /\ UNCHANGED <<c_tail, c_ret, c_head_vis, c_head_acq>>
    /\ UNCHANGED <<pvars, gvars>>
    /\ UNCHANGED hvars
    /\ UNCHANGED ovars

\* faulty variant: the element is destroyed before it is copied out, so a
\* throwing assignment leaves a destroyed element at tail
C_copy_throw_destroyed ==
    /\ c_pc = "copy_out"
    /\ c_out' \in ReadSlot(c_tail) \cup {c_out, Garbage}
    /\ buf_' = [buf_ EXCEPT ![c_tail].state = "dead", ![c_tail].dtors = @ + 1,
                            ![c_tail].cstamp = Len(tail_mo)]
    /\ c_pc' = "idle" /\ c_ret' = "threw"
    /\ UNCHANGED <<alive, head_mo, tail_mo>>
    /\ UNCHANGED <<c_tail, c_head_vis, c_head_acq>>
    /\ UNCHANGED <<pvars, gvars>>
    /\ UNCHANGED hvars
    /\ UNCHANGED ovars

\* out = *p throws: the exception leaves try_pop, p->~T() and the store of tail
\* are not reached; out holds whatever the interrupted assignment left in it
C_copy_throw ==
    /\ c_pc = "copy_out"
    /\ c_out' \in ReadSlot(c_tail) \cup {c_out, Garbage}
    /\ buf_' = [buf_ EXCEPT ![c_tail].cstamp = Len(tail_mo)]
    /\ c_pc' = "idle" /\ c_ret' = "threw"
    /\ UNCHANGED <<alive, head_mo, tail_mo>>
    /\ UNCHANGED <<c_tail, c_head_vis, c_head_acq>>
    /\ UNCHANGED <<pvars, gvars>>
    /\ UNCHANGED hvars
    /\ UNCHANGED ovars

\* faulty variant: the destructor call is missing
DestroySlot_omitted(buf, i, stamp) == [buf EXCEPT ![i].cstamp = stamp]

\* the destructor calls made so far on the slots of buf
DtorCount(buf) == SumOver([i \in DOMAIN buf |-> buf[i].dtors], DOMAIN buf)

\* p->~T() on slot i
DestroySlot(buf, i, stamp) ==
    [buf EXCEPT ![i].state = "dead", ![i].dtors = @ + 1,
                ![i].dseq = DtorCount(buf) + 1, ![i].cstamp = stamp]

\* p->~T();
C_destroy ==
    /\ c_pc = "destroy"
    /\ buf_' = DestroySlot(buf_, c_tail, Len(tail_mo))
    /\ c_pc' = "store_tail"
    /\ UNCHANGED <<alive, head_mo, tail_mo>>
    /\ UNCHANGED <<c_tail, c_out, c_ret, c_head_vis, c_head_acq>>
    /\ UNCHANGED <<pvars, gvars>>
    /\ UNCHANGED hvars
    /\ UNCHANGED ovars

\* tail_.store((tail + 1) & MASK, release); return true;
C_store_tail ==
    /\ c_pc = "store_tail"
    /\ tail_mo' = Append(tail_mo, BitAnd(c_tail + 1, MASK))
    /\ c_pc' = "idle" /\ c_ret' = "true"
    /\ popped' = Append(popped, c_out)
    /\ UNCHANGED <<alive, head_mo, buf_>>
    /\ UNCHANGED <<c_tail, c_out, c_head_vis, c_head_acq>>
    /\ last_done' = "pop"
    /\ UNCHANGED <<pvars, threads, pushed, T_kind>>
    /\ UNCHANGED hvars
    /\ UNCHANGED ovars

\* a store of tail_ becomes visible to the producer thread
Visible_tail ==
    /\ threads = 2
    /\ p_tail_vis < Len(tail_mo)
    /\ p_tail_vis' = p_tail_vis + 1
    /\ UNCHANGED <<p_pc, p_op, p_val, p_head, p_next, p_ret, p_tail_acq>>
    /\ UNCHANGED <<qvars, cvars, gvars>>
    /\ UNCHANGED hvars
    /\ UNCHANGED ovars

\* ------------------------------------------------------------- queries
\* faulty variant: empty() reports a queue of one element as empty
empty_one_left == BitAnd(tail_ + 1, MASK) = head_

\* empty(): tail_.load(acquire) == head_.load(acquire), on the current values
empty == tail_ = head_

\* faulty variant: full() compares head itself with tail
full_no_next == head_ = tail_

\* full(): next = (head_.load(acquire) + 1) & MASK; next == tail_.load(acquire)
full ==
    LET head == head_
        next == BitAnd(head + 1, MASK)
    IN next = tail_

\* ------------------------------------------------------------- queries, load by load
\* no thread has called empty() or full()
NoQuery ==
    /\ q_who = "none" /\ q_op = "none" /\ q_pc = "idle" /\ q_first = 0
    /\ q_lo = 0 /\ q_pos = 0 /\ q_ret = "none" /\ q_own = 0
    /\ q_conc = FALSE
    /\ o_pc = "idle" /\ o_first = 0 /\ o_pos = 0 /\ o_pushed = 0
    /\ o_ret = "none" /\ o_nonempty = FALSE

\* faulty variant: empty() reports a queue of one element as empty
empty_loads_one_left(tail, head) == tail = head \/ BitAnd(tail + 1, MASK) = head

\* empty(): the comparison of the two loaded values
empty_loads(tail, head) == tail = head

\* faulty variant: full() compares head itself with tail
full_loads_no_next(head, tail) == head = tail

\* full(): the comparison of the two loaded values
full_loads(head, tail) ==
    LET next == BitAnd(head + 1, MASK)
    IN next = tail

\* the modification order of the index the thread who does not write
OtherMo(who) == IF who = "producer" THEN tail_mo ELSE head_mo

\* the index a query loads first, and second
FirstIdx(op) == IF op = "empty" THEN "tail" ELSE "head"
SecondIdx(op) == IF op = "empty" THEN "head" ELSE "tail"

\* idx.load(acquire) by a role thread: its own index yields its last store,
\* the other thread's index the store its view has reached
QLoad(who, idx) ==
    LET mo == IF idx = "head" THEN head_mo ELSE tail_mo
        own == (who = "producer") <=> (idx = "head")
        vis == IF who = "producer" THEN p_tail_vis ELSE c_head_vis
        pos == IF own THEN Len(mo) ELSE LoadPos(vis, mo)
    IN [val |-> mo[pos], pos |-> pos, own |-> own]

\* what the acquire load ld adds to the positions its thread has acquired
QAcquire(who, ld) ==
    /\ p_tail_acq' = IF who = "producer" /\ ~ld.own
                      THEN Acquire(p_tail_acq, ld.pos) ELSE p_tail_acq
    /\ c_head_acq' = IF who = "consumer" /\ ~ld.own
                      THEN Acquire(c_head_acq, ld.pos) ELSE c_head_acq

\* empty() / full() called on a role thread, between two of its operations
Call_query(who, op) ==
    /\ main_pc = "none"
    /\ alive /\ threads = 2
    /\ q_who = "none"
    /\ who = "producer" => p_pc = "idle"
    /\ who = "consumer" => c_pc = "idle"
    /\ q_who' = who /\ q_op' = op /\ q_pc' = "first"
    /\ UNCHANGED <<q_first, q_lo, q_pos, q_ret, q_own, q_conc>>
    /\ UNCHANGED <<qvars, pvars, cvars, gvars, hvars>>
    /\ UNCHANGED <<xvars, kvars, plvars, oyvars>>

\* the query's first load: tail_.load(acquire) in empty(), head_.load(acquire)
\* in full()
Q_first ==
    /\ q_pc = "first"
    /\ LET ld == QLoad(q_who, FirstIdx(q_op)) IN
        /\ q_first' = ld.val
        /\ QAcquire(q_who, ld)
        /\ q_pos' = IF ld.own THEN q_pos ELSE ld.pos
    /\ q_lo' = Len(OtherMo(q_who))
    /\ q_pc' = "second"
    /\ UNCHANGED <<q_who, q_op, q_ret, q_own, q_conc>>
    /\ UNCHANGED <<p_pc, p_op, p_val, p_head, p_next, p_ret, p_tail_vis>>
    /\ UNCHANGED <<c_pc, c_tail, c_out, c_ret, c_head_vis>>
    /\ UNCHANGED <<qvars, gvars, hvars>>
    /\ UNCHANGED <<xvars, kvars, plvars, oyvars>>

\* the query's second load and the comparison it returns
Q_second ==
    /\ q_pc = "second"
    /\ LET ld == QLoad(q_who, SecondIdx(q_op)) IN
        /\ q_ret' = IF q_op = "empty"
                     THEN (IF empty_loads(q_first, ld.val) THEN "true" ELSE "false")
                     ELSE (IF full_loads(q_first, ld.val) THEN "true" ELSE "false")
        /\ QAcquire(q_who, ld)
    /\ q_own' = IF q_who = "producer" THEN Len(pushed) ELSE Len(popped)
    /\ q_conc' = (Len(OtherMo(q_who)) > q_lo)
    /\ q_pc' = "idle" /\ q_first' = 0 /\ q_lo' = 0 /\ q_pos' = 0
    /\ UNCHANGED <<q_who, q_op>>
    /\ UNCHANGED <<p_pc, p_op, p_val, p_head, p_next, p_ret, p_tail_vis>>
    /\ UNCHANGED <<c_pc, c_tail, c_out, c_ret, c_head_vis>>
    /\ UNCHANGED <<qvars, gvars, hvars>>
    /\ UNCHANGED <<xvars, kvars, plvars, oyvars>>

\* a role thread is inside a query: it starts no operation until it returns
Querying(who) == q_who = who /\ q_pc # "idle"

\* empty() called on a third thread
Observer_empty ==
    /\ main_pc = "none"
    /\ alive /\ threads = 2
    /\ o_pc = "idle" /\ o_ret = "none"
    /\ o_pc' = "first"
    /\ UNCHANGED <<o_first, o_pos, o_pushed, o_ret, o_nonempty>>
    /\ UNCHANGED <<qvars, pvars, cvars, gvars, hvars>>
    /\ UNCHANGED <<xvars, kvars, plvars, qyvars>>

\* observer: tail_.load(acquire) returns a store of tail_, the latest or an
\* earlier one
O_load_tail ==
    /\ o_pc = "first"
    /\ \E j \in 1..Len(tail_mo) :
        /\ o_first' = tail_mo[j]
        /\ o_pos' = j
    /\ o_pushed' = Len(pushed)
    /\ o_pc' = "second"
    /\ UNCHANGED <<o_ret, o_nonempty>>
    /\ UNCHANGED <<qvars, pvars, cvars, gvars, hvars>>
    /\ UNCHANGED <<xvars, kvars, plvars, qyvars>>

\* The acquire load of tail_ synchronised with the consumer's store it read
\* from, so the stores of head_ the consumer had acquired by then are visible
\* to the observer.  The consumer has acquired no more than c_head_acq; the
\* constructor's store of tail_ (position 1) follows only the constructor's
\* store of head_.
HeadFloor(j) == IF j = 1 THEN 1 ELSE c_head_acq

\* observer: head_.load(acquire) and the comparison
O_load_head ==
    /\ o_pc = "second"
    /\ \E h \in HeadFloor(o_pos)..Len(head_mo) :
        o_ret' = IF empty_loads(o_first, head_mo[h]) THEN "true" ELSE "false"
    /\ o_nonempty' = (o_pushed > Len(popped))
    /\ o_pc' = "idle" /\ o_first' = 0 /\ o_pos' = 0 /\ o_pushed' = 0
    /\ UNCHANGED <<qvars, pvars, cvars, gvars, hvars>>
    /\ UNCHANGED <<xvars, kvars, plvars, qyvars>>

\* ------------------------------------------------------------- teardown
\* faulty variant: the loop stops one slot before head
RECURSIVE ClearLoop_short(_, _, _, _)
ClearLoop_short(buf, tail, head, stamp) ==
    IF tail # head /\ BitAnd(tail + 1, MASK) # head
    THEN ClearLoop_short(DestroySlot(buf, tail, stamp), BitAnd(tail + 1, MASK),
                         head, stamp)
    ELSE [buf |-> buf, tail |-> head]

\* the while loop of clear(): destroy the slots from tail up to head
RECURSIVE ClearLoop(_, _, _, _)
ClearLoop(buf, tail, head, stamp) ==
    IF tail # head
    THEN ClearLoop(DestroySlot(buf, tail, stamp), BitAnd(tail + 1, MASK), head, stamp)
    ELSE [buf |-> buf, tail |-> tail]

\* faulty variant: the tail loaded at the start of clear() is stored back
clear_keeps_tail ==
    LET r == ClearLoop(buf_, tail_, head_, Len(tail_mo)) IN
    /\ buf_' = r.buf
    /\ tail_mo' = Append(tail_mo, tail_)

\* clear(), called with both threads stopped
clear ==
    LET r == ClearLoop(buf_, tail_, head_, Len(tail_mo)) IN
    /\ buf_' = r.buf
    /\ tail_mo' = Append(tail_mo, r.tail)

\* ~SPSCQueue() { clear(); }
Destructor ==
    /\ alive /\ p_pc = "idle" /\ c_pc = "idle"
    /\ clear
    /\ alive' = FALSE
    /\ UNCHANGED head_mo
    /\ UNCHANGED <<pvars, cvars, gvars>>

\* a client destroys the queue once its calls have returned
Client_destroy ==
    /\ main_pc = "none"
    /\ Destructor
    /\ UNCHANGED hvars
    /\ UNCHANGED ovars

\* a client calls clear() on a queue it keeps using: both threads are stopped
\* for the call, so the call is ordered after all they did and before all
\* they do next
Client_clear ==
    /\ main_pc = "none"
    /\ alive /\ p_pc = "idle" /\ c_pc = "idle"
    /\ Len(tail_mo) - 1 - Len(popped) < MaxClear
    /\ clear
    /\ p_tail_vis' = Len(tail_mo') /\ p_tail_acq' = Len(tail_mo')
    /\ c_head_vis' = Len(head_mo) /\ c_head_acq' = Len(head_mo)
    /\ UNCHANGED <<alive, head_mo>>
    /\ UNCHANGED <<p_pc, p_op, p_val, p_head, p_next, p_ret>>
    /\ UNCHANGED <<c_pc, c_tail, c_out, c_ret>>
    /\ UNCHANGED gvars
    /\ UNCHANGED hvars
    /\ UNCHANGED ovars

\* ------------------------------------------------------------- capacity
\* arithmetic of std::size_t
SizeWrap(x) == (x + Pow2(SizeBits)) % Pow2(SizeBits)

\* faulty variant: the static_assert PowerOfTwoCapacity >= 2 is missing
CapacityOK_no_min(c) == BitAnd(c, SizeWrap(c - 1)) = 0

\* the two static_asserts of SPSCQueue(): instantiation compiles iff both hold
CapacityOK(c) == c >= 2 /\ BitAnd(c, SizeWrap(c - 1)) = 0

\* main's test of the command-line CAP
MainRejects(c) == BitAnd(c, SizeWrap(c - 1)) # 0 \/ c < 2

\* the capacities RUN_WITH_CAP is expanded for
Supported == {Pow2(10), Pow2(12), Pow2(14), Pow2(16), Pow2(18), Pow2(20)}

\* main's return value for CAP = c (0: the benchmark ran)
MainExit(c) == IF MainRejects(c) THEN 1 ELSE IF c \in Supported THEN 0 ELSE 2

\* no queue object exists yet: its atomics and storage hold nothing
Unconstructed ==
    /\ alive = FALSE
    /\ head_mo = <<Garbage>>
    /\ tail_mo = <<Garbage>>
    /\ buf_ = [i \in Slots |-> RawSlot]
    /\ p_pc = "idle" /\ p_op = "none" /\ p_val = NoVal
    /\ p_head = 0 /\ p_next = 0 /\ p_ret = "none"
    /\ p_tail_vis = 1 /\ p_tail_acq = 1
    /\ c_pc = "idle" /\ c_tail = 0 /\ c_out = NoVal /\ c_ret = "none"
    /\ c_head_vis = 1 /\ c_head_acq = 1
    /\ pushed = <<>> /\ popped = <<>> /\ last_done = "none"

\* a program instantiates and constructs SPSCQueue<T, cap_arg>
SPSCQueue_ctor ==
    /\ cap_state = "none"
    /\ IF CapacityOK(cap_arg)
       THEN /\ cap_state' = "accepted"
            /\ alive' = TRUE
            /\ head_mo' = <<0>>
            /\ tail_mo' = <<0>>
       ELSE /\ cap_state' = "rejected"
            /\ UNCHANGED <<alive, head_mo, tail_mo>>
    /\ UNCHANGED <<buf_, cap_arg, exit_code>>
    /\ UNCHANGED <<pvars, cvars, gvars, hvars, xvars, plvars, yvars>>

\* main is run with CAP = cap_arg on its command line
Main_check_cap ==
    /\ exit_code = -1
    /\ exit_code' = MainExit(cap_arg)
    /\ UNCHANGED <<cap_arg, cap_state>>
    /\ UNCHANGED <<qvars, pvars, cvars, gvars, hvars, xvars, plvars, yvars>>

\* the queue of the runs above is SPSCQueue<T, CAP>
NoCapacity == cap_arg = CAP /\ cap_state = "accepted" /\ exit_code = -1

\* ------------------------------------------------------------- ObjectPool
_kEmpty == -1

PoolSlots == 0..(PoolN - 1)

nullptr == 0
PoolBase == 64     \* address of _buf[0]
SlotSize == 4      \* sizeof(Slot) for T = Probe

ptr_from_index(i) == PoolBase + i * SlotSize

index_from_ptr(p) == (p - PoolBase) \div SlotSize

\* ObjectPool(): the free list is 0 -> 1 -> ... -> N - 1 -> _kEmpty
NewPool ==
    /\ _buf = [i \in PoolSlots |-> [state |-> "raw", v |-> NoVal, ctors |-> 0,
                                    dtors |-> 0, dseq |-> 0]]
    /\ _next_free = [i \in PoolSlots |-> IF i < PoolN - 1 THEN i + 1 ELSE _kEmpty]
    /\ _head = 0
    /\ _free_count = PoolN
    /\ Probe_live = 0 /\ Probe_ctors = 0 /\ Probe_dtors = 0
    /\ ps = {}
    /\ pool_op = [op |-> "none", arg |-> 0, ret |-> 0]
    /\ pool_n = 0

capacity == PoolN

free_slots == _free_count

\* faulty variant: the pool reports exhaustion while one slot is still free
allocate_index_early(head, next_free, free_count) ==
    IF free_count <= 1
    THEN [index |-> _kEmpty, head |-> head, free_count |-> free_count]
    ELSE [index |-> head, head |-> next_free[head], free_count |-> free_count - 1]

\* allocate_index(): the index taken, and _head and _free_count after it
allocate_index(head, next_free, free_count) ==
    IF free_count = 0
    THEN [index |-> _kEmpty, head |-> head, free_count |-> free_count]
    ELSE [index |-> head, head |-> next_free[head], free_count |-> free_count - 1]

\* faulty variant: the free count is not restored
release_index_no_count(i, head, next_free, free_count) ==
    [next_free |-> [next_free EXCEPT ![i] = head], head |-> i,
     free_count |-> free_count]

\* faulty variant: the released slot is linked in behind the first free slot
release_index_below_head(i, head, next_free, free_count) ==
    IF head = _kEmpty
    THEN [next_free |-> [next_free EXCEPT ![i] = head], head |-> i,
          free_count |-> free_count + 1]
    ELSE [next_free |-> [next_free EXCEPT ![i] = next_free[head], ![head] = i],
          head |-> head, free_count |-> free_count + 1]

\* faulty variant: the released slot is not linked to the old head
release_index_no_link(i, head, next_free, free_count) ==
    [next_free |-> next_free, head |-> i, free_count |-> free_count + 1]

\* faulty variant: releasing the slot that already heads the free list is ignored
release_index_guarded(i, head, next_free, free_count) ==
    IF i = head
    THEN [next_free |-> next_free, head |-> head, free_count |-> free_count]
    ELSE [next_free |-> [next_free EXCEPT ![i] = head], head |-> i,
          free_count |-> free_count + 1]

\* release_index(i): _next_free, _head and _free_count after it
release_index(i, head, next_free, free_count) ==
    [next_free |-> [next_free EXCEPT ![i] = head], head |-> i,
     free_count |-> free_count + 1]

\* T *create(Args &&...args) with T = Probe, args = x, the constructor not throwing
create(x) ==
    /\ pool_n < MaxPoolCalls
    /\ pool_n' = pool_n + 1
    /\ LET a == allocate_index(_head, _next_free, _free_count) IN
       IF a.index = _kEmpty
       THEN /\ pool_op' = [op |-> "create", arg |-> x, ret |-> nullptr]
            /\ UNCHANGED <<_buf, _next_free, _head, _free_count, Probe_live,
                           Probe_ctors, Probe_dtors, ps>>
       ELSE /\ _head' = a.head
            /\ _free_count' = a.free_count
            /\ _buf' = [_buf EXCEPT ![a.index].state = "live",
                                    ![a.index].v = x,
                                    ![a.index].ctors = @ + 1]
            /\ Probe_live' = Probe_live + 1
            /\ Probe_ctors' = Probe_ctors + 1
            /\ ps' = ps \cup {ptr_from_index(a.index)}
            /\ pool_op' = [op |-> "create", arg |-> x,
                           ret |-> ptr_from_index(a.index)]
            /\ UNCHANGED <<_next_free, Probe_dtors>>
    /\ UNCHANGED <<qvars, pvars, cvars, gvars, hvars, xvars, kvars, yvars>>

\* void destroy(T *p), p a pointer the client got from create and still holds
destroy(p) ==
    /\ pool_n < MaxPoolCalls
    /\ pool_n' = pool_n + 1
    /\ p \in ps
    /\ LET index == index_from_ptr(p)
           r == release_index(index, _head, _next_free, _free_count)
       IN  /\ index >= 0 /\ index < PoolN
           /\ _buf' = [_buf EXCEPT ![index].state = "dead",
                                   ![index].dtors = @ + 1,
                                   ![index].dseq = DtorCount(_buf) + 1]
           /\ Probe_live' = Probe_live - 1
           /\ Probe_dtors' = Probe_dtors + 1
           /\ _next_free' = r.next_free
           /\ _head' = r.head
           /\ _free_count' = r.free_count
    /\ ps' = ps \ {p}
    /\ pool_op' = [op |-> "destroy", arg |-> p, ret |-> 0]
    /\ UNCHANGED Probe_ctors
    /\ UNCHANGED <<qvars, pvars, cvars, gvars, hvars, xvars, kvars, yvars>>

\* faulty variant: the index allocated is not released when T's constructor throws
create_throws_leaks(x) ==
    /\ pool_n < MaxPoolCalls
    /\ pool_n' = pool_n + 1
    /\ LET a == allocate_index(_head, _next_free, _free_count) IN
       /\ a.index # _kEmpty
       /\ _head' = a.head
       /\ _free_count' = a.free_count
       /\ pool_op' = [op |-> "create_throw", arg |-> x,
                      ret |-> ptr_from_index(a.index)]
    /\ UNCHANGED <<_buf, _next_free, Probe_live, Probe_ctors, Probe_dtors, ps>>
    /\ UNCHANGED <<qvars, pvars, cvars, gvars, hvars, xvars, kvars, yvars>>

\* T *create(Args &&...args) when T's constructor throws: the index allocated
\* is released in the catch block and the exception leaves the call.  No
\* object exists in the slot.  pool_op.ret records addr, nothing is returned.
create_throws(x) ==
    /\ pool_n < MaxPoolCalls
    /\ pool_n' = pool_n + 1
    /\ LET a == allocate_index(_head, _next_free, _free_count)
           r == release_index(a.index, a.head, _next_free, a.free_count)
       IN  /\ a.index # _kEmpty
           /\ _next_free' = r.next_free
           /\ _head' = r.head
           /\ _free_count' = r.free_count
           /\ pool_op' = [op |-> "create_throw", arg |-> x,
                          ret |-> ptr_from_index(a.index)]
    /\ UNCHANGED <<_buf, Probe_live, Probe_ctors, Probe_dtors, ps>>
    /\ UNCHANGED <<qvars, pvars, cvars, gvars, hvars, xvars, kvars, yvars>>

\* what p->~T() can do to Probe's counters when *p was destroyed before: the
\* object's lifetime has ended, the call has undefined behaviour; the
\* destructor's body runs on the dead storage or the call has no effect
DeadDtor ==
    \/ /\ Probe_live' = Probe_live - 1
       /\ Probe_dtors' = Probe_dtors + 1
    \/ UNCHANGED <<Probe_live, Probe_dtors>>

\* void destroy(T *p) called a second time with the pointer the client has
\* just destroyed, no create() in between
destroy_again(p) ==
    /\ pool_n < MaxPoolCalls
    /\ pool_n' = pool_n + 1
    /\ pool_op.op = "destroy" /\ p = pool_op.arg
    /\ p # nullptr
    /\ LET index == index_from_ptr(p)
           r == release_index(index, _head, _next_free, _free_count)
       IN  /\ index >= 0 /\ index < PoolN
           /\ _buf' = [_buf EXCEPT ![index].dtors = @ + 1,
                                   ![index].dseq = DtorCount(_buf) + 1]
           /\ DeadDtor
           /\ _next_free' = r.next_free
           /\ _head' = r.head
           /\ _free_count' = r.free_count
    /\ pool_op' = [op |-> "destroy_again", arg |-> p, ret |-> 0]
    /\ UNCHANGED <<Probe_ctors, ps>>
    /\ UNCHANGED <<qvars, pvars, cvars, gvars, hvars, xvars, kvars, yvars>>

\* the slots reached from h by following next_free, at most fuel of them
RECURSIVE FreeChain(_, _, _)
FreeChain(h, next_free, fuel) ==
    IF h = _kEmpty \/ fuel = 0 THEN <<>>
    ELSE <<h>> \o FreeChain(next_free[h], next_free, fuel - 1)

\* where following next_free from h for fuel steps ends
RECURSIVE ChainEnd(_, _, _)
ChainEnd(h, next_free, fuel) ==
    IF h = _kEmpty \/ fuel = 0 THEN h
    ELSE ChainEnd(next_free[h], next_free, fuel - 1)

\* the free list ends at _kEmpty without visiting a slot twice
FreeListOK ==
    /\ ChainEnd(_head, _next_free, PoolN) = _kEmpty
    /\ LET c == FreeChain(_head, _next_free, PoolN)
       IN  \A j, k \in 1..Len(c) : j # k => c[j] # c[k]

\* ------------------------------------------------------------- misuse
\* A second thread calls try_pop while the consumer thread does, or try_push
\* while the producer thread does.  Its loads of head_ and tail_ return the
\* latest store, one of the values the memory model lets them return.
NoSecond ==
    /\ c2_pc = "idle" /\ c2_tail = 0 /\ c2_out = NoVal /\ c2_ret = "none"
    /\ p2_pc = "idle" /\ p2_val = NoVal /\ p2_head = 0 /\ p2_next = 0
    /\ p2_ret = "none"

c2_rest == <<qvars, pvars, cvars, gvars, hvars, kvars, plvars, yvars,
             p2_pc, p2_val, p2_head, p2_next, p2_ret>>

\* try_pop(T& out) on the second consumer thread: entry
try_pop2 ==
    /\ main_pc = "none"
    /\ alive /\ c2_pc = "idle"
    /\ CopyAssignable
    /\ c2_pc' = "load_tail"
    /\ UNCHANGED <<c2_tail, c2_out, c2_ret>>
    /\ UNCHANGED c2_rest

\* tail = tail_.load(relaxed)
C2_load_tail ==
    /\ c2_pc = "load_tail"
    /\ c2_tail' = tail_
    /\ c2_pc' = "load_head"
    /\ UNCHANGED <<c2_out, c2_ret>>
    /\ UNCHANGED c2_rest

\* if (tail == head_.load(acquire)) return false;
C2_load_head ==
    /\ c2_pc = "load_head"
    /\ IF IsEmpty(c2_tail, head_)
       THEN c2_pc' = "idle" /\ c2_ret' = "false"
       ELSE c2_pc' = "copy_out" /\ UNCHANGED c2_ret
    /\ UNCHANGED <<c2_tail, c2_out>>
    /\ UNCHANGED c2_rest

\* what *p can yield for the second consumer: the element if one is there
ReadSlot2(i) ==
    IF buf_[i].state = "live" THEN {buf_[i].val} ELSE {buf_[i].val, Garbage}

\* T *p = elem_ptr(tail); out = *p;
C2_copy_out ==
    /\ c2_pc = "copy_out"
    /\ c2_out' \in ReadSlot2(c2_tail)
    /\ c2_pc' = "destroy"
    /\ UNCHANGED <<c2_tail, c2_ret>>
    /\ UNCHANGED c2_rest

\* faulty variant: the second consumer does not call the destructor
C2_destroy_omitted ==
    /\ c2_pc = "destroy"
    /\ c2_pc' = "store_tail"
    /\ UNCHANGED <<c2_tail, c2_out, c2_ret>>
    /\ UNCHANGED c2_rest

\* p->~T();
C2_destroy ==
    /\ c2_pc = "destroy"
    /\ buf_' = DestroySlot(buf_, c2_tail, Len(tail_mo))
    /\ c2_pc' = "store_tail"
    /\ UNCHANGED <<c2_tail, c2_out, c2_ret>>
    /\ UNCHANGED <<alive, head_mo, tail_mo>>
    /\ UNCHANGED <<pvars, cvars, gvars, hvars, kvars, plvars, yvars>>
    /\ UNCHANGED <<p2_pc, p2_val, p2_head, p2_next, p2_ret>>

\* tail_.store((tail + 1) & MASK, release); return true;
C2_store_tail ==
    /\ c2_pc = "store_tail"
    /\ tail_mo' = Append(tail_mo, BitAnd(c2_tail + 1, MASK))
    /\ c2_pc' = "idle" /\ c2_ret' = "true"
    /\ popped' = Append(popped, c2_out)
    /\ last_done' = "pop"
    /\ UNCHANGED <<c2_tail, c2_out>>
    /\ UNCHANGED <<alive, head_mo, buf_>>
    /\ UNCHANGED <<threads, pushed, T_kind>>
    /\ UNCHANGED <<pvars, cvars, hvars, kvars, plvars, yvars>>
    /\ UNCHANGED <<p2_pc, p2_val, p2_head, p2_next, p2_ret>>

C2Step == C2_load_tail \/ C2_load_head \/ C2_copy_out \/ C2_destroy \/ C2_store_tail

p2_rest == <<qvars, pvars, cvars, gvars, hvars, kvars, plvars, yvars,
             c2_pc, c2_tail, c2_out, c2_ret>>

\* the second producer's values differ from the producer's and from each other
NextValue2 == MaxPush + Len(pushed) + 1

\* try_push(const T &value) on the second producer thread: entry
try_push2 ==
    /\ main_pc = "none"
    /\ alive /\ p2_pc = "idle"
    /\ CopyConstructible
    /\ Len(pushed) < MaxPush
    /\ p2_pc' = "load_head" /\ p2_val' = NextValue2
    /\ UNCHANGED <<p2_head, p2_next, p2_ret>>
    /\ UNCHANGED p2_rest

\* head = head_.load(relaxed); next = (head + 1) & MASK
P2_load_head ==
    /\ p2_pc = "load_head"
    /\ p2_head' = head_
    /\ p2_next' = BitAnd(head_ + 1, MASK)
    /\ p2_pc' = "load_tail"
    /\ UNCHANGED <<p2_val, p2_ret>>
    /\ UNCHANGED p2_rest

\* if (next == tail_.load(acquire)) return false;
P2_load_tail ==
    /\ p2_pc = "load_tail"
    /\ IF IsFull(p2_next, tail_)
       THEN p2_pc' = "idle" /\ p2_ret' = "false" /\ p2_val' = NoVal
       ELSE p2_pc' = "construct" /\ UNCHANGED <<p2_ret, p2_val>>
    /\ UNCHANGED <<p2_head, p2_next>>
    /\ UNCHANGED p2_rest

\* faulty variant: the second producer constructs nothing
P2_construct_omitted ==
    /\ p2_pc = "construct"
    /\ p2_pc' = "store_head"
    /\ UNCHANGED <<p2_val, p2_head, p2_next, p2_ret>>
    /\ UNCHANGED p2_rest

\* ::new (elem_addr(head)) T(value): whatever the slot held is overwritten,
\* no destructor runs
P2_construct ==
    /\ p2_pc = "construct"
    /\ buf_' = [buf_ EXCEPT ![p2_head].state = "live",
                            ![p2_head].val = Construct("push_copy", p2_val),
                            ![p2_head].ctors = @ + 1,
                            ![p2_head].pstamp = Len(head_mo)]
    /\ p2_pc' = "store_head"
    /\ UNCHANGED <<p2_val, p2_head, p2_next, p2_ret>>
    /\ UNCHANGED <<alive, head_mo, tail_mo>>
    /\ UNCHANGED <<pvars, cvars, gvars, hvars, kvars, plvars, yvars>>
    /\ UNCHANGED <<c2_pc, c2_tail, c2_out, c2_ret>>

\* head_.store(next, release); return true;
P2_store_head ==
    /\ p2_pc = "store_head"
    /\ head_mo' = Append(head_mo, p2_next)
    /\ p2_pc' = "idle" /\ p2_ret' = "true"
    /\ pushed' = Append(pushed, p2_val)
    /\ p2_val' = NoVal
    /\ last_done' = "push"
    /\ UNCHANGED <<p2_head, p2_next>>
    /\ UNCHANGED <<alive, tail_mo, buf_>>
    /\ UNCHANGED <<threads, popped, T_kind>>
    /\ UNCHANGED <<pvars, cvars, hvars, kvars, plvars, yvars>>
    /\ UNCHANGED <<c2_pc, c2_tail, c2_out, c2_ret>>

P2Step == P2_load_head \/ P2_load_tail \/ P2_construct \/ P2_store_head

\* everything outside the one-producer one-consumer queue is at rest
NoOthers == NoSecond /\ NoCapacity /\ NewPool /\ NoQuery

\* ------------------------------------------------------------- specification
QueueStep ==
    \/ P_load_head \/ P_load_tail \/ P_construct_begin \/ P_construct_end
    \/ P_store_head \/ Visible_head
    \/ C_load_tail \/ C_load_head \/ C_copy_out \/ C_destroy
    \/ C_store_tail \/ Visible_tail

Init ==
    /\ threads \in {1, 2}
    /\ T_kind \in {"copyable", "move_only"}
    /\ NewQueue
    /\ NoHarness
    /\ NoOthers

\* the steps a thread takes inside a call: the producer's, the consumer's
PStep ==
    \/ P_load_head \/ P_load_tail \/ P_construct_begin \/ P_construct_end
    \/ P_construct_throw \/ P_store_head

CStep == C_load_tail \/ C_load_head \/ C_copy_out \/ C_destroy \/ C_store_tail

Next ==
    \/ try_push_copy \/ try_push_move \/ try_emplace \/ try_pop
    \/ QueueStep
    \/ P_construct_throw
    \/ Client_destroy

Spec == Init /\ [][Next]_vars

\* client runs with an element type whose assignment may throw
PopThrowNext == Next \/ C_copy_throw

PopThrowSpec == Init /\ [][PopThrowNext]_vars

\* client runs in which a role thread calls empty() or full() between its
\* operations and a third thread calls empty()
QueryInit ==
    /\ threads = 2
    /\ T_kind = "copyable"
    /\ NewQueue
    /\ NoHarness
    /\ NoOthers

\* The queries only read.  A run in which the observer's call overlaps a role
\* thread's query shows nothing that the runs with one after the other do
\* not: the observer calls first, and a role thread queries in the runs
\* without an observer and in those where the observer was misled.
ObserverDone == o_pc = "idle" /\ (o_ret = "none" \/ (o_ret = "true" /\ o_nonempty))

QueryNext ==
    \/ (~Querying("producer") /\ Len(pushed) < MaxQueryPush /\ try_push_copy)
    \/ (~Querying("consumer") /\ try_pop)
    \/ QueueStep
    \/ (ObserverDone /\ \E who \in {"producer", "consumer"}, op \in {"empty", "full"} :
           Call_query(who, op))
    \/ Q_first \/ Q_second
    \/ (q_who = "none" /\ Observer_empty)
    \/ O_load_tail \/ O_load_head

QuerySpec == QueryInit /\ [][QueryNext]_vars

\* client runs that may also call clear() between operations
ClearNext == Next \/ Client_clear

ClearSpec == Init /\ [][ClearNext]_vars

\* instantiations of SPSCQueue and runs of main over a range of capacities
CapInit ==
    /\ cap_arg \in 0..MaxCapArg /\ cap_state = "none" /\ exit_code = -1
    /\ threads = 1 /\ T_kind = "copyable"
    /\ Unconstructed
    /\ NoHarness
    /\ NoSecond
    /\ NewPool
    /\ NoQuery

CapNext == SPSCQueue_ctor \/ Main_check_cap

CapSpec == CapInit /\ [][CapNext]_vars

\* client runs of an ObjectPool<Probe, PoolN>
PoolInit ==
    /\ NewPool
    /\ threads = 1 /\ T_kind = "copyable"
    /\ NewQueue
    /\ NoHarness
    /\ NoSecond
    /\ NoCapacity
    /\ NoQuery

PoolNext ==
    \/ \E x \in {pool_n + 1} : create(x)
    \/ \E p \in ps : destroy(p)

PoolSpec == PoolInit /\ [][PoolNext]_vars

\* client runs in which T's constructor may throw
PoolThrowNext ==
    \/ PoolNext
    \/ \E x \in {pool_n + 1} : create_throws(x)

PoolThrowSpec == PoolInit /\ [][PoolThrowNext]_vars

\* out-of-contract runs: the client destroys a pointer twice, and creates
\* objects afterwards
DoubleDestroyNext ==
    \/ \E x \in {pool_n + 1} : create(x)
    \/ FreeListOK /\ \E p \in ps : destroy(p)
    \/ \E p \in {pool_op.arg} : destroy_again(p)

DoubleDestroySpec == PoolInit /\ [][DoubleDestroyNext]_vars

\* out-of-contract runs: two consumer threads, two producer threads
MisuseInit ==
    /\ threads = 2 /\ T_kind = "copyable"
    /\ NewQueue
    /\ NoHarness
    /\ NoOthers

TwoConsumersNext ==
    \/ Len(pushed) < MaxMisuse /\ try_push_copy
    \/ Len(popped) < MaxMisuse /\ try_pop
    \/ Len(popped) < MaxMisuse /\ try_pop2
    \/ QueueStep
    \/ C2Step

TwoConsumersSpec == MisuseInit /\ [][TwoConsumersNext]_vars

TwoProducersNext ==
    \/ Len(pushed) < MaxMisuse /\ try_push_copy
    \/ Len(pushed) < MaxMisuse /\ try_push2
    \/ Len(popped) < MaxMisuse /\ try_pop
    \/ QueueStep
    \/ P2Step

TwoProducersSpec == MisuseInit /\ [][TwoProducersNext]_vars

\* ------------------------------------------------------------- benchmark
\* RUN_WITH_CAP: the queue is new, go is false, sum is 0 and both threads are
\* started; N comes from the command line
HarnessInit ==
    /\ threads = 2
    /\ T_kind = "copyable"
    /\ NewQueue
    /\ NoOthers
    /\ main_pc = "start" /\ go = FALSE /\ N \in 0..MaxItems
    /\ prod_pc = "wait_go" /\ cons_pc = "wait_go"
    /\ p_i = 0 /\ c_i = 0 /\ sum = 0 /\ produced = 0 /\ consumed = 0
    /\ checksum_ok = "none"

\* arithmetic of value_t / unsigned long long
Wrap(x) == x % Pow2(WordBits)

\* prod: while (!go.load(acquire)) {}
Prod_wait_go ==
    /\ prod_pc = "wait_go" /\ go
    /\ prod_pc' = "for"
    /\ UNCHANGED <<main_pc, go, N, cons_pc, p_i, c_i, sum, produced, consumed,
                   checksum_ok>>
    /\ UNCHANGED <<qvars, pvars, cvars, gvars>>
    /\ UNCHANGED ovars

\* prod: for (i = 0; i < N; ++i) { v = i; while (!q->try_push(v)) ...
Prod_for ==
    /\ prod_pc = "for"
    /\ IF p_i < N
       THEN /\ prod_pc' = "spin"
            /\ p_pc' = "load_head" /\ p_op' = "push_copy" /\ p_val' = Wrap(p_i)
       ELSE /\ prod_pc' = "done"
            /\ UNCHANGED <<p_pc, p_op, p_val>>
    /\ UNCHANGED <<p_head, p_next, p_ret, p_tail_vis, p_tail_acq>>
    /\ UNCHANGED <<main_pc, go, N, cons_pc, p_i, c_i, sum, produced, consumed,
                   checksum_ok>>
    /\ UNCHANGED <<qvars, cvars, gvars>>
    /\ UNCHANGED ovars

\* prod: while (!q->try_push(v)) {}  produced.fetch_add(1, relaxed);  ++i
Prod_spin ==
    /\ prod_pc = "spin" /\ p_pc = "idle"
    /\ IF p_ret = "true"
       THEN /\ produced' = produced + 1
            /\ p_i' = p_i + 1
            /\ prod_pc' = "for"
            /\ UNCHANGED <<p_pc, p_op, p_val>>
       ELSE /\ p_pc' = "load_head" /\ p_op' = "push_copy" /\ p_val' = Wrap(p_i)
            /\ UNCHANGED <<produced, p_i, prod_pc>>
    /\ UNCHANGED <<p_head, p_next, p_ret, p_tail_vis, p_tail_acq>>
    /\ UNCHANGED <<main_pc, go, N, cons_pc, c_i, sum, consumed, checksum_ok>>
    /\ UNCHANGED <<qvars, cvars, gvars>>
    /\ UNCHANGED ovars

\* cons: while (!go.load(acquire)) {}
Cons_wait_go ==
    /\ cons_pc = "wait_go" /\ go
    /\ cons_pc' = "for"
    /\ UNCHANGED <<main_pc, go, N, prod_pc, p_i, c_i, sum, produced, consumed,
                   checksum_ok>>
    /\ UNCHANGED <<qvars, pvars, cvars, gvars>>
    /\ UNCHANGED ovars

\* cons: for (i = 0; i < N; ++i) { while (!q->try_pop(v)) ...
Cons_for ==
    /\ cons_pc = "for"
    /\ IF c_i < N
       THEN cons_pc' = "spin" /\ c_pc' = "load_tail"
       ELSE cons_pc' = "done" /\ UNCHANGED c_pc
    /\ UNCHANGED <<c_tail, c_out, c_ret, c_head_vis, c_head_acq>>
    /\ UNCHANGED <<main_pc, go, N, prod_pc, p_i, c_i, sum, produced, consumed,
                   checksum_ok>>
    /\ UNCHANGED <<qvars, pvars, gvars>>
    /\ UNCHANGED ovars

\* cons: while (!q->try_pop(v)) {}  sum += v;  consumed.fetch_add(1, relaxed);  ++i
Cons_spin ==
    /\ cons_pc = "spin" /\ c_pc = "idle"
    /\ IF c_ret = "true"
       THEN /\ sum' = Wrap(sum + c_out)
            /\ consumed' = consumed + 1
            /\ c_i' = c_i + 1
            /\ cons_pc' = "for"
            /\ UNCHANGED c_pc
       ELSE /\ c_pc' = "load_tail"
            /\ UNCHANGED <<sum, consumed, c_i, cons_pc>>
    /\ UNCHANGED <<c_tail, c_out, c_ret, c_head_vis, c_head_acq>>
    /\ UNCHANGED <<main_pc, go, N, prod_pc, p_i, produced, checksum_ok>>
    /\ UNCHANGED <<qvars, pvars, gvars>>
    /\ UNCHANGED ovars

\* main: go.store(true, release);
Main_go ==
    /\ main_pc = "start"
    /\ go' = TRUE
    /\ main_pc' = "join"
    /\ UNCHANGED <<N, prod_pc, cons_pc, p_i, c_i, sum, produced, consumed,
                   checksum_ok>>
    /\ UNCHANGED <<qvars, pvars, cvars, gvars>>
    /\ UNCHANGED ovars

\* main: prod.join(); cons.join();
Main_join ==
    /\ main_pc = "join"
    /\ prod_pc = "done" /\ cons_pc = "done"
    /\ main_pc' = "report"
    /\ UNCHANGED <<go, N, prod_pc, cons_pc, p_i, c_i, sum, produced, consumed,
                   checksum_ok>>
    /\ UNCHANGED <<qvars, pvars, cvars, gvars>>
    /\ UNCHANGED ovars

\* expected = (unsigned long long)N * (N - 1ull) / 2
Expected(n) == Wrap(Wrap(n) * Wrap(n - 1 + Pow2(WordBits))) \div 2

\* main: "Checksum OK? " << (sum == expected ? "yes" : "NO")
Main_report ==
    /\ main_pc = "report"
    /\ checksum_ok' = IF sum = Expected(N) THEN "yes" ELSE "NO"
    /\ main_pc' = "return"
    /\ UNCHANGED <<go, N, prod_pc, cons_pc, p_i, c_i, sum, produced, consumed>>
    /\ UNCHANGED <<qvars, pvars, cvars, gvars>>
    /\ UNCHANGED ovars

\* main: return 0; the unique_ptr q destroys the queue
Main_return ==
    /\ main_pc = "return"
    /\ Destructor
    /\ main_pc' = "exit"
    /\ UNCHANGED <<go, N, prod_pc, cons_pc, p_i, c_i, sum, produced, consumed,
                   checksum_ok>>
    /\ UNCHANGED ovars

\* cons, with the queue taken to deliver 0, 1, ..., N - 1 in this order: the
\* i-th try_pop that succeeds yields v = static_cast<value_t>(i);
\* sum += v;  consumed.fetch_add(1, relaxed);  ++i
Cons_receive ==
    /\ cons_pc = "for" /\ c_i < N
    /\ sum' = Wrap(sum + Wrap(c_i))
    /\ consumed' = consumed + 1
    /\ c_i' = c_i + 1
    /\ UNCHANGED <<main_pc, go, N, prod_pc, cons_pc, p_i, produced, checksum_ok>>
    /\ UNCHANGED <<qvars, pvars, cvars, gvars>>
    /\ UNCHANGED ovars

\* cons: the for loop ends
Cons_done ==
    /\ cons_pc = "for" /\ c_i >= N
    /\ cons_pc' = "done"
    /\ UNCHANGED <<main_pc, go, N, prod_pc, p_i, c_i, sum, produced, consumed,
                   checksum_ok>>
    /\ UNCHANGED <<qvars, pvars, cvars, gvars>>
    /\ UNCHANGED ovars

\* runs of the benchmark's arithmetic for item counts 0..MaxSumN: prod has
\* pushed 0..N-1 and ended, cons receives them, main compares
ChecksumInit ==
    /\ threads = 2
    /\ T_kind = "copyable"
    /\ NewQueue
    /\ NoOthers
    /\ main_pc = "join" /\ go = TRUE /\ N \in 0..MaxSumN
    /\ prod_pc = "done" /\ cons_pc = "for"
    /\ p_i = N /\ c_i = 0 /\ sum = 0 /\ produced = N /\ consumed = 0
    /\ checksum_ok = "none"

ChecksumNext == Cons_receive \/ Cons_done \/ Main_join \/ Main_report

ChecksumSpec == ChecksumInit /\ [][ChecksumNext]_vars

ProdThread ==
    \/ Prod_wait_go \/ Prod_for \/ Prod_spin
    \/ P_load_head \/ P_load_tail \/ P_construct_begin \/ P_construct_end
    \/ P_store_head

ConsThread ==
    \/ Cons_wait_go \/ Cons_for \/ Cons_spin
    \/ C_load_tail \/ C_load_head \/ C_copy_out \/ C_destroy \/ C_store_tail

MainThread == Main_go \/ Main_join \/ Main_report \/ Main_return

HarnessNext ==
    \/ ProdThread \/ ConsThread \/ MainThread
    \/ Visible_head \/ Visible_tail

HarnessSpec == HarnessInit /\ [][HarnessNext]_vars

\* Both threads and main are scheduled fairly, and a store to an atomic becomes
\* visible to the other thread in finite time.
FairHarnessSpec ==
    /\ HarnessSpec
    /\ WF_vars(ProdThread) /\ WF_vars(ConsThread) /\ WF_vars(MainThread)
    /\ WF_vars(Visible_head) /\ WF_vars(Visible_tail)

\* ------------------------------------------------------------- derived notions
IsPrefix(s, t) ==
    /\ Len(s) <= Len(t)
    /\ \A k \in 1..Len(s) : s[k] = t[k]

\* the slots that hold a constructed, not yet destroyed element
LiveSlots == {i \in Slots : buf_[i].state = "live"}

\* the indices of the half-open range [tail, head) modulo CAP
Range(tail, head) ==
    {BitAnd(tail + k, MASK) : k \in 0..(BitAnd(head + CAP - tail, MASK) - 1)}

Constructions == SumOver([i \in Slots |-> buf_[i].ctors], Slots)
Destructions == SumOver([i \in Slots |-> buf_[i].dtors], Slots)

ProducerInSlot == p_pc \in {"construct", "constructing", "store_head"}
ConsumerInSlot == c_pc \in {"copy_out", "destroy", "store_tail"}

\* ------------------------------------------------------------- claims

\* C1: FIFO order.  On a single thread, the values delivered by the successful
\* try_pop calls are the values of the successful try_push calls in the same
\* order: the popped sequence is a prefix of the pushed sequence.
C1_FIFO == threads = 1 => IsPrefix(popped, pushed)

\* single thread, pushes and pops interleaved, the indices have wrapped around
C1_Witness ==
    /\ threads = 1
    /\ Len(pushed) = MaxPush /\ Len(popped) >= CAP
    /\ Len(popped) < Len(pushed)

\* C2: concurrent round trip.  Under fair scheduling of the producer thread
\* pushing 0..N-1 and the consumer thread popping N times, for every
\* interleaving, both threads terminate, and when they have the sum is
\* N*(N-1)/2 and the values popped are 0..N-1 in order.
C2_RoundTrip ==
    /\ <>(prod_pc = "done" /\ cons_pc = "done")
    /\ [](cons_pc = "done" =>
            /\ 2 * sum = N * (N - 1)
            /\ popped = [k \in 1..N |-> k - 1])

\* the run has ended with more items than the queue has slots: the producer
\* has found the queue full, the consumer has found it empty
C2_Witness ==
    /\ prod_pc = "done" /\ cons_pc = "done"
    /\ N = MaxItems /\ N > CAP
    /\ 2 * sum = N * (N - 1)
    /\ checksum_ok = "yes" /\ main_pc = "exit"

\* C3: slot lifecycle safety.  The consumer reads and destroys only a slot that
\* holds a completely constructed element whose construction is ordered before
\* the access; the producer constructs only in a vacant slot whose last use by
\* the consumer is ordered before the construction; a slot whose construction is
\* still running is never one the consumer has been told about.
C3_SlotLifecycle ==
    /\ c_pc \in {"copy_out", "destroy"} =>
          buf_[c_tail].state = "live" /\ PublishedFor(c_tail)
    /\ p_pc = "construct" =>
          buf_[p_head].state \in {"raw", "dead"} /\ VacatedFor(p_head)
    /\ \A i \in Slots :
          buf_[i].state = "partial" =>
              /\ p_pc = "constructing" /\ i = p_head
              /\ ~(ConsumerInSlot /\ c_tail = i)
              /\ i \notin Range(tail_, head_mo[c_head_acq])

\* two threads: the consumer is reading a reused slot while the producer is
\* in the middle of constructing the next element
C3_Witness ==
    /\ threads = 2
    /\ c_pc = "copy_out" /\ buf_[c_tail].ctors >= 2
    /\ p_pc = "constructing"

\* C4 as stated: in every reachable state the live slots are exactly
\* [tail, head) modulo Capacity.
C4_LiveIsRange_AllStates == LiveSlots = Range(tail_, head_)

\* C4, amended: the live slots are exactly [tail, head) modulo Capacity, except
\* that the slot at head is already live while the producer is between the end
\* of the construction and its store of head, and the slot at tail is already
\* destroyed while the consumer is between the destruction and its store of tail.
C4_LiveIsRange ==
    LiveSlots =
        (Range(tail_, head_) \cup (IF p_pc = "store_head" THEN {p_head} ELSE {}))
            \ (IF c_pc = "store_tail" THEN {c_tail} ELSE {})

\* both exceptions at once, on a queue whose indices have wrapped around
C4_Witness ==
    /\ p_pc = "store_head" /\ c_pc = "store_tail"
    /\ Len(pushed) >= CAP
    /\ LiveSlots # Range(tail_, head_)

\* C5: full/empty boundary.  While nothing has been popped, a try_push fails
\* only as the Capacity-th one (Capacity - 1 elements are stored and full() is
\* true), so the first Capacity - 1 succeed; once every pushed element has been
\* popped, empty() is true and no try_pop succeeds.
C5_Boundary ==
    /\ Len(tail_mo) = 1 => Len(pushed) <= CAP - 1
    /\ (Len(tail_mo) = 1 /\ p_pc = "idle" /\ p_ret = "false") =>
          Len(pushed) = CAP - 1
    /\ (Len(tail_mo) = 1 /\ p_pc = "idle" /\ Len(pushed) = CAP - 1) => full
    /\ (p_pc = "idle" /\ c_pc = "idle" /\ Len(popped) = Len(pushed)) => empty
    /\ (p_pc = "idle" /\ Len(popped) = Len(pushed)) => ~ConsumerInSlot

\* Capacity - 1 pushes, a failed push, Capacity - 1 pops, a failed pop
C5_Witness ==
    /\ p_pc = "idle" /\ p_ret = "false"
    /\ c_pc = "idle" /\ c_ret = "false"
    /\ Len(pushed) = CAP - 1 /\ Len(popped) = CAP - 1
    /\ empty

\* C6: no double destruction, no leak.  In every slot the constructions are the
\* destructions plus one if the slot is live (each element is destroyed at most
\* once and only after it was constructed), so constructions = live +
\* destructions; after the destructor nothing is live and constructions =
\* destructions.
C6_ExactlyOnce ==
    /\ \A i \in Slots :
          buf_[i].ctors = buf_[i].dtors + (IF buf_[i].state = "live" THEN 1 ELSE 0)
    /\ Constructions = Cardinality(LiveSlots) + Destructions
    /\ ~alive => (LiveSlots = {} /\ Constructions = Destructions)

\* the destructor ran on a queue that had popped some elements and still held
\* at least two
C6_Witness ==
    /\ ~alive
    /\ Len(popped) >= 2 /\ Len(pushed) >= Len(popped) + 2
    /\ Constructions = Len(pushed)

\* C7: a try_push (any variant) that finds the queue full returns false without
\* side effects: no step of the call changes head, tail or any slot, and
\* nothing is recorded as pushed.
C7_FailedPushFrame ==
    [][(p_pc \in {"idle", "load_head", "load_tail"} /\ p_pc' # p_pc
            /\ p_pc' \in {"load_head", "load_tail", "idle"})
        => /\ UNCHANGED <<head_mo, tail_mo, buf_, pushed, popped>>
           /\ (p_pc = "load_tail" =>
                  /\ p_ret' = "false"
                  /\ \E k \in 1..Len(tail_mo) : p_next = tail_mo[k])]_vars

\* a push has failed on a queue holding Capacity - 1 elements after wrap-around
C7_Witness ==
    /\ p_pc = "idle" /\ p_ret = "false"
    /\ Len(pushed) - Len(popped) = CAP - 1
    /\ Len(popped) >= 1

\* C8: a try_pop that finds the queue empty returns false and leaves the output
\* argument untouched; no step of the call changes head, tail or any slot, and
\* nothing is destroyed.
C8_FailedPopFrame ==
    [][(c_pc \in {"idle", "load_tail", "load_head"} /\ c_pc' # c_pc
            /\ c_pc' \in {"load_tail", "load_head", "idle"})
        => /\ UNCHANGED <<head_mo, tail_mo, buf_, pushed, popped, c_out>>
           /\ (c_pc = "load_head" =>
                  /\ c_ret' = "false"
                  /\ \E k \in 1..Len(head_mo) : c_tail = head_mo[k])]_vars

\* a pop has failed after an earlier pop had written the output argument
C8_Witness ==
    /\ c_pc = "idle" /\ c_ret = "false"
    /\ Len(popped) >= 1 /\ c_out = Last(popped)

\* C9: index ownership.  head changes only in the producer's store, to
\* (head + 1) & MASK, and tail is then unchanged; while the queue is in use tail
\* changes only in the consumer's store, to (tail + 1) & MASK, and head is then
\* unchanged; a call that returns false changes neither.
C9_IndexOwnership ==
    [][/\ head_mo' # head_mo =>
            /\ p_pc = "store_head" /\ p_pc' = "idle" /\ p_ret' = "true"
            /\ head_mo' = Append(head_mo, BitAnd(head_ + 1, MASK))
            /\ UNCHANGED <<tail_mo, cvars>>
       /\ (tail_mo' # tail_mo /\ alive') =>
            /\ c_pc = "store_tail" /\ c_pc' = "idle" /\ c_ret' = "true"
            /\ tail_mo' = Append(tail_mo, BitAnd(tail_ + 1, MASK))
            /\ UNCHANGED <<head_mo, pvars>>
       /\ (p_pc # "idle" /\ p_pc' = "idle" /\ p_ret' = "false") =>
            UNCHANGED <<head_mo, tail_mo>>
       /\ (c_pc # "idle" /\ c_pc' = "idle" /\ c_ret' = "false") =>
            UNCHANGED <<head_mo, tail_mo>>]_vars

\* both indices have advanced past the end of the buffer and wrapped to 0 or
\* beyond
C9_Witness ==
    /\ Len(head_mo) > CAP /\ Len(tail_mo) > CAP
    /\ head_ < CAP /\ tail_ < CAP
    /\ alive

\* C10: exclusive slot ownership.  The producer between its full check and its
\* store of head and the consumer between its empty check and its store of tail
\* are never working on the same slot.
C10_ExclusiveSlot ==
    (ProducerInSlot /\ ConsumerInSlot) => p_head # c_tail

\* both threads are inside a slot at once: the producer is filling the last
\* slot it may use while the consumer is destroying the oldest element
C10_Witness ==
    /\ threads = 2
    /\ p_pc = "constructing" /\ c_pc = "destroy"
    /\ BitAnd(p_head + 2, MASK) = c_tail
    /\ Len(popped) >= 1

\* the position of a step inside its call
Rank(pc) ==
    CASE pc = "idle" -> 0
      [] pc \in {"load_head"} -> 1
      [] pc \in {"load_tail"} -> 2
      [] pc \in {"construct", "copy_out"} -> 3
      [] pc \in {"constructing", "destroy"} -> 4
      [] pc \in {"store_head", "store_tail"} -> 5

CRank(pc) == IF pc = "load_tail" THEN 1 ELSE IF pc = "load_head" THEN 2 ELSE Rank(pc)

\* C11: try_push, try_emplace and try_pop never block.  Inside a call the
\* thread's next step is enabled whatever state the other thread is in (it may
\* have stopped anywhere), and every step either returns or moves strictly
\* forward through the call, so a call returns after at most five of its own
\* steps.
C11_NeverBlocks ==
    /\ [](p_pc # "idle" => ENABLED PStep)
    /\ [](c_pc # "idle" => ENABLED CStep)
    /\ [][(p_pc # "idle" /\ p_pc' # p_pc) =>
            (p_pc' = "idle" \/ Rank(p_pc') > Rank(p_pc))]_vars
    /\ [][(c_pc # "idle" /\ c_pc' # c_pc) =>
            (c_pc' = "idle" \/ CRank(c_pc') > CRank(c_pc))]_vars

\* a push has returned false on a full queue while the consumer sits in the
\* middle of a pop, between its destruction and its store of tail
C11_Witness ==
    /\ threads = 2
    /\ p_pc = "idle" /\ p_ret = "false"
    /\ c_pc = "store_tail"
    /\ Len(pushed) - Len(popped) = CAP - 1

\* C12: if the constructor of T throws inside try_push or try_emplace, the
\* exception reaches the caller, head and tail are unchanged, the slot holds no
\* element (neither live nor half-constructed), every other slot is untouched
\* and nothing is recorded as pushed.
C12_ThrowingConstructor ==
    [][(p_pc = "constructing" /\ p_pc' = "idle" /\ p_ret' # "true") =>
          /\ p_ret' = "threw"
          /\ UNCHANGED <<head_mo, tail_mo, pushed, popped>>
          /\ buf_'[p_head].state \in {"raw", "dead"}
          /\ buf_'[p_head].ctors = buf_[p_head].ctors
          /\ buf_'[p_head].dtors = buf_[p_head].dtors
          /\ \A i \in Slots \ {p_head} : buf_'[i] = buf_[i]
          /\ {i \in Slots : buf_'[i].state = "live"} = LiveSlots]_vars

\* a constructor has thrown in a reused slot of a queue that holds elements,
\* and the live slots are still exactly [tail, head)
C12_Witness ==
    /\ p_pc = "idle" /\ p_ret = "threw" /\ c_pc = "idle"
    /\ buf_[head_].state = "dead"
    /\ Len(pushed) > Len(popped) /\ Len(popped) >= 1
    /\ LiveSlots = Range(tail_, head_)

\* the indices tail, tail + 1, ... up to head, modulo CAP, in that order
RangeSeq(tail, head) ==
    [k \in 1..BitAnd(head + CAP - tail, MASK) |-> BitAnd(tail + k - 1, MASK)]

\* C13: clear(), run with no call of either thread in progress (by a client or
\* as the body of the destructor), destroys each live element of [tail, head)
\* exactly once, in increasing index order modulo Capacity, touches no other
\* slot, leaves head unchanged and ends with tail equal to head; on an empty
\* queue it destroys nothing.
C13_Clear ==
    [][(tail_mo' # tail_mo /\ c_pc # "store_tail") =>
          LET seq == RangeSeq(tail_, head_) IN
          /\ p_pc = "idle" /\ c_pc = "idle"
          /\ \A k \in 1..Len(seq) :
                /\ buf_[seq[k]].state = "live"
                /\ buf_'[seq[k]].state = "dead"
                /\ buf_'[seq[k]].dtors = buf_[seq[k]].dtors + 1
                /\ buf_'[seq[k]].dseq = Destructions + k
          /\ \A i \in Slots :
                (\A k \in 1..Len(seq) : seq[k] # i) => buf_'[i] = buf_[i]
          /\ UNCHANGED head_mo
          /\ Last(tail_mo') = head_
          /\ (tail_ = head_ => buf_' = buf_)]_vars

\* a client's clear() has destroyed at least two elements across the end of
\* the buffer (slot CAP - 1, then slot 0), and the queue is empty and in use
C13_Witness ==
    /\ alive /\ p_pc = "idle" /\ c_pc = "idle"
    /\ Len(tail_mo) = Len(popped) + 2
    /\ tail_ = head_
    /\ buf_[CAP - 1].state = "dead" /\ buf_[0].state = "dead"
    /\ buf_[CAP - 1].dseq > Len(popped)
    /\ buf_[0].dseq = buf_[CAP - 1].dseq + 1

\* the slot the most recent completed try_pop vacated
VacatedSlot == BitAnd(tail_ + MASK, MASK)

\* C15 (as stated): when the operation completed last was a try_pop that
\* removed the element of slot i, the next successful try_push places its
\* element in slot i.
C15_ReusesVacatedSlot ==
    [][(head_mo' # head_mo /\ last_done = "pop") => p_head = VacatedSlot]_vars

\* C15 (amended): slots are filled in ring order.  The n-th successful push
\* constructs into slot (n - 1) mod Capacity, as that slot's
\* ((n - 1) div Capacity + 1)-th element, and a push that follows a pop of
\* slot i never goes to slot i.
C15_RingOrder ==
    [][(head_mo' # head_mo) =>
          /\ p_head = BitAnd(Len(pushed), MASK)
          /\ buf_[p_head].state = "live"
          /\ buf_[p_head].val = p_val
          /\ buf_[p_head].ctors = (Len(pushed) \div CAP) + 1
          /\ (last_done = "pop" => p_head # VacatedSlot)]_vars

\* a push that followed a pop has completed and its slot holds its second
\* element: the slot was vacated by an earlier pop and filled again
C15_Witness ==
    /\ last_done = "push" /\ p_pc = "idle" /\ p_ret = "true"
    /\ Len(popped) >= 1 /\ Len(pushed) > CAP
    /\ buf_[BitAnd(head_ + MASK, MASK)].ctors = 2
    /\ buf_[BitAnd(head_ + MASK, MASK)].state = "live"

\* C18 (as stated): with an element type that is movable but not copyable,
\* a client whose queue has no call in progress can call try_push(T &&) and
\* try_emplace (while the run's push budget lasts) and can call try_pop.
C18_MoveOnly ==
    (/\ T_kind = "move_only" /\ main_pc = "none" /\ alive
     /\ p_pc = "idle" /\ c_pc = "idle" /\ Len(pushed) > 0)
    => /\ Len(pushed) < MaxPush => (ENABLED try_push_move /\ ENABLED try_emplace)
       /\ ENABLED try_pop

\* c is a power of two, by its definition
IsPowerOfTwo(c) == \E k \in 0..SizeBits : c = Pow2(k)

\* C14: a queue with capacity 0, 1 or any value that is not a power of two is
\* rejected; every power of two >= 2 (2, 4 and 1024 among them) is accepted,
\* and the queue constructed is empty with head = tail = 0.  main rejects, by
\* returning 1, exactly the capacities the constructor rejects, and runs the
\* benchmark only for capacities the constructor accepts.
C14_CapacityValidation ==
    /\ cap_state = "rejected" =>
          /\ cap_arg < 2 \/ ~IsPowerOfTwo(cap_arg)
          /\ ~alive
    /\ cap_state = "accepted" =>
          /\ cap_arg >= 2 /\ IsPowerOfTwo(cap_arg)
          /\ alive /\ head_ = 0 /\ tail_ = 0 /\ empty
    /\ (cap_state # "none" /\ cap_arg \in {0, 1, 3, 6, 1023}) => cap_state = "rejected"
    /\ (cap_state # "none" /\ cap_arg \in {2, 4, 1024}) => cap_state = "accepted"
    /\ exit_code = 1 => (cap_arg < 2 \/ ~IsPowerOfTwo(cap_arg))
    /\ exit_code \in {0, 2} => (cap_arg >= 2 /\ IsPowerOfTwo(cap_arg))
    /\ exit_code = 0 => cap_arg \in Supported

\* SPSCQueue<T, 1024> has been constructed and main has run with CAP = 1024
C14_Witness ==
    /\ cap_arg = 1024 /\ cap_state = "accepted" /\ exit_code = 0
    /\ alive /\ head_ = 0 /\ tail_ = 0

\* C16: two threads calling try_pop concurrently can both return true for the
\* same slot.  Whenever both calls have got as far as their store of tail
\* with the same local tail, the slot has been destroyed at least twice and
\* more often than it was constructed, and the store leaves tail one past the
\* slot: tail advances by one for the two pops.
C16_TwoConsumers ==
    [][(/\ c_pc = "store_tail" /\ c2_pc = "store_tail" /\ c_tail = c2_tail
        /\ tail_mo' # tail_mo) =>
          /\ buf_[c_tail].dtors > buf_[c_tail].ctors
          /\ buf_[c_tail].dtors >= 2
          /\ Last(tail_mo') = BitAnd(c_tail + 1, MASK)]_vars

\* one element was pushed; both consumers returned true and delivered it; its
\* slot was destroyed twice and tail went from 0 to 1
C16_Witness ==
    /\ c_pc = "idle" /\ c2_pc = "idle" /\ c_ret = "true" /\ c2_ret = "true"
    /\ pushed = <<1>> /\ popped = <<1, 1>>
    /\ tail_mo = <<0, 1, 1>>
    /\ buf_[0].ctors = 1 /\ buf_[0].dtors = 2

\* C17: two threads calling try_push concurrently can both return true for
\* the same slot.  Whenever both calls have got as far as their store of head
\* with the same local head, the slot has been constructed twice with no
\* destruction between, it holds the value of one of the two calls only, and
\* the store leaves head one past the slot: head advances by one for the two
\* pushes.
C17_TwoProducers ==
    [][(/\ p_pc = "store_head" /\ p2_pc = "store_head" /\ p_head = p2_head
        /\ head_mo' # head_mo) =>
          /\ buf_[p_head].ctors >= buf_[p_head].dtors + 2
          /\ buf_[p_head].state = "live"
          /\ buf_[p_head].val \in {p_val, p2_val}
          /\ Last(head_mo') = BitAnd(p_head + 1, MASK)]_vars

\* both producers returned true; two values count as pushed but head went
\* from 0 to 1 and the one slot filled was constructed twice, never destroyed;
\* the consumer has drained the queue and got one value
C17_Witness ==
    /\ p_pc = "idle" /\ p2_pc = "idle" /\ p_ret = "true" /\ p2_ret = "true"
    /\ Len(pushed) = 2 /\ head_mo = <<0, 1, 1>>
    /\ buf_[0].ctors = 2 /\ buf_[0].dtors = 1
    /\ c_pc = "idle" /\ Len(popped) = 1 /\ tail_ = head_

\* number of slots of the pool that hold a live object
LiveCount == Cardinality({i \in PoolSlots : _buf[i].state = "live"})

\* C19: create() returns a non-null pointer, to a slot that held no live
\* object, whenever fewer than N objects are live, and nullptr exactly when
\* all N slots hold live objects; a create() that returns nullptr constructs
\* nothing and leaves free_slots() and the free list unchanged.
C19_CapacityLimit ==
    [][(pool_n' # pool_n /\ pool_op'.op = "create") =>
          LET ret == pool_op'.ret
              index == index_from_ptr(ret)
          IN  /\ LiveCount < PoolN =>
                    /\ ret # nullptr
                    /\ index \in PoolSlots /\ ptr_from_index(index) = ret
                    /\ _buf[index].state # "live"
                    /\ _buf'[index].state = "live"
                    /\ LiveCount' = LiveCount + 1
              /\ LiveCount = PoolN => ret = nullptr
              /\ ret = nullptr =>
                    /\ LiveCount = PoolN
                    /\ UNCHANGED <<_buf, _next_free, _head, _free_count>>
                    /\ UNCHANGED <<Probe_live, Probe_ctors, Probe_dtors, ps>>]_vars

\* a create() has returned nullptr on a pool that is full again after some of
\* its slots were recycled
C19_Witness ==
    /\ pool_op.op = "create" /\ pool_op.ret = nullptr
    /\ LiveCount = PoolN /\ Probe_dtors >= 1 /\ free_slots = 0

\* C20: free_slots() equals N minus the number of live objects: N - M after M
\* creates on a fresh pool, N once every object created has been destroyed.
\* Each successful create runs exactly one constructor, in the slot it
\* returns, and each destroy exactly one destructor, in the slot it is given.
C20_SlotAccounting ==
    /\ [](/\ free_slots = PoolN - LiveCount
          /\ Cardinality(ps) = LiveCount
          /\ Probe_live = LiveCount
          /\ Probe_live = Probe_ctors - Probe_dtors
          /\ Probe_dtors = 0 => free_slots = PoolN - Probe_ctors
          /\ Probe_ctors = Probe_dtors => free_slots = PoolN)
    /\ [][(pool_n' # pool_n /\ pool_op'.op = "create" /\ pool_op'.ret # nullptr) =>
             /\ Probe_ctors' = Probe_ctors + 1 /\ Probe_dtors' = Probe_dtors
             /\ \A i \in PoolSlots :
                   /\ _buf'[i].dtors = _buf[i].dtors
                   /\ _buf'[i].ctors = _buf[i].ctors +
                         (IF i = index_from_ptr(pool_op'.ret) THEN 1 ELSE 0)]_vars
    /\ [][(pool_n' # pool_n /\ pool_op'.op = "destroy") =>
             /\ Probe_dtors' = Probe_dtors + 1 /\ Probe_ctors' = Probe_ctors
             /\ \A i \in PoolSlots :
                   /\ _buf'[i].ctors = _buf[i].ctors
                   /\ _buf'[i].dtors = _buf[i].dtors +
                         (IF i = index_from_ptr(pool_op'.arg) THEN 1 ELSE 0)]_vars

\* more objects than the pool has slots were created and every one of them
\* has been destroyed: all N slots are free again
C20_Witness ==
    /\ pool_op.op = "destroy" /\ LiveCount = 0 /\ ps = {}
    /\ Probe_ctors > PoolN /\ Probe_ctors = Probe_dtors
    /\ free_slots = PoolN

\* the slots a destroy() has released and no create() has taken again
Released == {i \in PoolSlots : _buf[i].state = "dead"}

\* the slots no create() has ever taken
Fresh == {i \in PoolSlots : _buf[i].state = "raw"}

\* C21: a successful create() returns the slot released by the most recent
\* destroy() among the slots released and not yet reused, whichever other
\* objects are live; when no released slot is left it returns the lowest
\* slot never used.
C21_LifoReuse ==
    [][(pool_n' # pool_n /\ pool_op'.op = "create" /\ pool_op'.ret # nullptr) =>
          LET index == index_from_ptr(pool_op'.ret) IN
          IF Released # {}
          THEN /\ index \in Released
               /\ \A j \in Released : _buf[j].dseq <= _buf[index].dseq
          ELSE /\ index \in Fresh
               /\ \A j \in Fresh : index <= j]_vars

\* a, b, c were created, b was destroyed, and the create() that followed
\* returned b's address while a and c are live
C21_Witness ==
    /\ pool_op.op = "create" /\ pool_op.ret = ptr_from_index(1)
    /\ pool_n = 5 /\ Probe_dtors = 1
    /\ _buf[1].ctors = 2 /\ _buf[1].state = "live"
    /\ _buf[0].state = "live" /\ _buf[2].state = "live"

\* C23: when T's constructor throws inside create(), the call leaves by the
\* exception with _head, the _next_free links, free_slots(), the slots and
\* the client's pointers exactly as before the call, and the slot the call
\* had taken is the one the next create() returns.
C23_CreateRollback ==
    /\ [][(pool_n' # pool_n /\ pool_op'.op = "create_throw") =>
             /\ UNCHANGED <<_head, _next_free, _free_count, _buf, ps>>
             /\ UNCHANGED <<Probe_live, Probe_ctors, Probe_dtors>>
             /\ pool_op'.ret = ptr_from_index(_head)]_vars
    /\ [][(pool_n' # pool_n /\ pool_op.op = "create_throw"
           /\ pool_op'.op = "create") =>
             /\ pool_op'.ret = pool_op.ret
             /\ pool_op'.ret # nullptr]_vars

\* a create() threw in a slot released earlier, below two live objects, and
\* the create() after it returned that slot
C23_Witness ==
    /\ pool_op.op = "create" /\ pool_op.ret = ptr_from_index(1)
    /\ Probe_dtors = 1 /\ Probe_ctors = 4 /\ pool_n = 6
    /\ _buf[1].ctors = 2 /\ LiveCount = PoolN

\* C28: the chain from _head along _next_free ends at -1 without visiting a
\* slot twice, has free_slots() entries and visits exactly the slots holding
\* no live object; the client's pointers address distinct slots, one per live
\* object, and 0 <= free_slots() <= N.
C28_FreeList ==
    LET chain == FreeChain(_head, _next_free, PoolN + 1) IN
    /\ ChainEnd(_head, _next_free, PoolN) = _kEmpty
    /\ \A j, k \in 1..Len(chain) : j # k => chain[j] # chain[k]
    /\ Len(chain) = free_slots
    /\ {chain[k] : k \in 1..Len(chain)} = {i \in PoolSlots : _buf[i].state # "live"}
    /\ \A q1, q2 \in ps : index_from_ptr(q1) = index_from_ptr(q2) => q1 = q2
    /\ {index_from_ptr(q) : q \in ps} = {i \in PoolSlots : _buf[i].state = "live"}
    /\ 0 <= free_slots /\ free_slots <= PoolN

\* the free list has been reordered by destroys: it starts at slot 1, goes on
\* to slot 0, and slot 2 holds the one live object
C28_Witness ==
    /\ _head = 1 /\ _next_free[1] = 0 /\ _next_free[0] = _kEmpty
    /\ _buf[2].state = "live" /\ free_slots = 2
    /\ ps = {ptr_from_index(2)}

Occupancy == (head_ - tail_ + CAP) % CAP

C24_ChecksumOK ==
    (main_pc = "return" /\ consumed = N /\ c_i = N) => checksum_ok = "yes"

\* C30: when out = *p throws inside try_pop, the call leaves by the exception
\* with head and tail as they were and the element at tail still live, not
\* destroyed and not delivered; the next try_pop that succeeds delivers that
\* element, which by then has been destroyed once for each construction.
C30_PopThrow ==
    /\ [][(c_pc = "copy_out" /\ c_pc' = "idle") =>
             /\ c_ret' = "threw"
             /\ UNCHANGED <<head_mo, tail_mo, popped, pushed>>
             /\ c_tail = tail_
             /\ buf_'[c_tail].state = "live"
             /\ buf_'[c_tail].val = buf_[c_tail].val
             /\ buf_'[c_tail].dtors = buf_[c_tail].dtors
             /\ buf_'[c_tail].ctors = buf_[c_tail].dtors + 1]_vars
    /\ []((alive /\ c_ret = "threw" /\ c_pc = "idle") =>
             /\ buf_[tail_].state = "live"
             /\ buf_[tail_].val = pushed[Len(popped) + 1])
    /\ [][(c_ret = "threw" /\ c_pc = "store_tail" /\ c_pc' = "idle") =>
             /\ c_ret' = "true"
             /\ popped' = Append(popped, pushed[Len(popped) + 1])
             /\ buf_[c_tail].state = "dead"
             /\ buf_[c_tail].dtors = buf_[c_tail].ctors]_vars

\* with the producer running on its own thread, a try_pop threw on the third
\* element and the try_pop after it has copied that element out and destroyed
\* it, and is about to advance tail
C30_Witness ==
    /\ threads = 2 /\ c_ret = "threw" /\ c_pc = "store_tail"
    /\ Len(popped) = 2 /\ c_out = pushed[3]
    /\ buf_[c_tail].dtors = 1 /\ buf_[c_tail].state = "dead"

\* what empty() (resp. full()) called by who is true of, when the other
\* thread's index has the value of position k of its modification order
TrueAt(who, op, k) ==
    LET head == IF who = "producer" THEN head_ ELSE head_mo[k]
        tail == IF who = "producer" THEN tail_mo[k] ELSE tail_
    IN IF op = "empty" THEN tail = head ELSE BitAnd(head + 1, MASK) = tail

\* the position of the other thread's index that the query returning now read
QueryPos ==
    LET other == IF q_who = "producer" THEN "tail" ELSE "head"
    IN IF FirstIdx(q_op) = other THEN q_pos ELSE QLoad(q_who, other).pos

\* C25 as stated: the value a role thread's empty() (full()) returns is the
\* emptiness (fullness) of the queue at some instant between the call's two
\* loads.
C25_Linearizable ==
    [][(q_pc = "second" /\ q_pc' = "idle") =>
          \E k \in q_lo..Len(OtherMo(q_who)) :
              TrueAt(q_who, q_op, k) <=> (q_ret' = "true")]_vars

\* C25, amended: the value a role thread's empty() (full()) returns is the
\* emptiness (fullness) of the caller's own index and a value the other
\* thread stored in its index, which may be older than its latest store; it
\* is the state of the queue at an instant of the call when that value is no
\* older than the latest store at the first load.  Whatever the view, the
\* consumer's empty() = false, the producer's empty() = true, the producer's
\* full() = false and the consumer's full() = true are true of the queue when
\* the call returns.
C25_Advisory ==
    [][(q_pc = "second" /\ q_pc' = "idle") =>
          /\ QueryPos \in 1..Len(OtherMo(q_who))
          /\ TrueAt(q_who, q_op, QueryPos) <=> (q_ret' = "true")
          /\ QueryPos >= q_lo =>
                \E k \in q_lo..Len(OtherMo(q_who)) :
                    TrueAt(q_who, q_op, k) <=> (q_ret' = "true")
          /\ (q_who = "consumer" /\ q_op = "empty" /\ q_ret' = "false") => ~empty
          /\ (q_who = "producer" /\ q_op = "empty" /\ q_ret' = "true") => empty
          /\ (q_who = "producer" /\ q_op = "full" /\ q_ret' = "false") => ~full
          /\ (q_who = "consumer" /\ q_op = "full" /\ q_ret' = "true") => full]_vars

\* a third thread's empty() has returned true although the queue held an
\* element at every instant of the call, and then the producer's full() has
\* returned false with a store of tail by the consumer between its two loads
C25_Witness ==
    /\ o_pc = "idle" /\ o_ret = "true" /\ o_nonempty
    /\ q_pc = "idle" /\ q_who = "producer" /\ q_op = "full"
    /\ q_ret = "false" /\ q_conc

\* C26 as stated: a try_push returns false only when the queue holds
\* Capacity - 1 elements at its load of tail, a try_pop only when it holds
\* none at its load of head.
C26_NoSpurious ==
    /\ [][(p_pc = "load_tail" /\ p_pc' = "idle") => full]_vars
    /\ [][(c_pc = "load_head" /\ c_pc' = "idle") => empty]_vars

\* C26, amended: a try_push returns false only when the producer's head and
\* the value its load of tail returned make Capacity - 1 elements; that value
\* is one the consumer stored, no older than any the producer has read, but
\* it may be older than the consumer's latest store.  When it is the latest,
\* the queue holds Capacity - 1 elements at the load.  The same for try_pop
\* with the consumer's tail and the value its load of head returned.
C26_ViewFailures ==
    /\ [][(p_pc = "load_tail" /\ p_pc' = "idle") =>
             LET pos == LoadPos(p_tail_vis, tail_mo) IN
             /\ p_ret' = "false"
             /\ pos \in 1..Len(tail_mo) /\ pos >= p_tail_acq
             /\ BitAnd(head_ + 1, MASK) = tail_mo[pos]
             /\ Len(head_mo) - pos = CAP - 1
             /\ pos = Len(tail_mo) => full]_vars
    /\ [][(c_pc = "load_head" /\ c_pc' = "idle") =>
             LET pos == LoadPos(c_head_vis, head_mo) IN
             /\ c_ret' = "false"
             /\ pos \in 1..Len(head_mo) /\ pos >= c_head_acq
             /\ head_mo[pos] = tail_
             /\ pos = Len(tail_mo)
             /\ pos = Len(head_mo) => empty]_vars

\* with two threads, the producer's try_push has failed on a queue that is
\* full after a wrap of head, its view of tail being the latest store
C26_Witness ==
    /\ threads = 2 /\ p_pc = "idle" /\ p_ret = "false"
    /\ full /\ p_tail_acq = Len(tail_mo) /\ Len(popped) >= 2
    /\ head_ = 1

\* the consumer's empty() has returned false and the consumer has not popped
\* since
SeenNonEmpty ==
    /\ q_pc = "idle" /\ q_who = "consumer" /\ q_op = "empty"
    /\ q_ret = "false" /\ Len(popped) = q_own

\* the producer's full() has returned false and the producer has not pushed
\* since
SeenNotFull ==
    /\ q_pc = "idle" /\ q_who = "producer" /\ q_op = "full"
    /\ q_ret = "false" /\ Len(pushed) = q_own

\* C27: from the return of a consumer's empty() = false until the consumer's
\* next pop the queue is not empty and the consumer's try_pop passes its
\* empty test; from the return of a producer's full() = false until the
\* producer's next push the queue is not full and the producer's try_push
\* passes its full test.
C27_Stable ==
    /\ [](SeenNonEmpty => ~empty)
    /\ [][(SeenNonEmpty /\ c_pc = "load_head" /\ c_pc' # c_pc) =>
             c_pc' = "copy_out"]_vars
    /\ [](SeenNotFull => ~full)
    /\ [][(SeenNotFull /\ p_pc = "load_tail" /\ p_pc' # p_pc) =>
             p_pc' = "construct"]_vars

\* the consumer's empty() returned false while the producer stored head
\* between its loads, and the try_pop that followed has returned true
C27_Witness ==
    /\ q_pc = "idle" /\ q_who = "consumer" /\ q_op = "empty"
    /\ q_ret = "false" /\ q_conc
    /\ c_pc = "idle" /\ c_ret = "true" /\ Len(popped) = q_own + 1
    /\ Len(pushed) = MaxQueryPush

====
